---------------------------- MODULE Spec2Model ----------------------------
(***************************************************************************)
(* Director plans: validation of the dependency graph (DirectorPlan),      *)
(* dependency-gated execution (PlanExecutor) and vote resolution           *)
(* (DirectorVotingPhase).                                                  *)
(*                                                                         *)
(* Step ids are uuid4 strings in the program; the model names a step by    *)
(* its position in plan.steps (ids are unique, dicts keep insertion        *)
(* order, so every plan is such a plan up to renaming).  A dependency      *)
(* list is a Python list: it may name an id twice and may name ids that    *)
(* no step of the plan carries.                                            *)
(***************************************************************************)
EXTENDS Integers, Sequences, FiniteSets, TLC

\* ---------------------------------------------------------------- bounds
MaxSteps == 3
MaxDepEntries == 3
MaxVotes == 10
MaxMods == 3
MaxDirectors == 2
MaxSynthSteps == 2
MaxDeviations == 2
MaxVoteCalls == 4
MaxIoSteps == 2
MaxVersions == 2
MaxToolCalls == 2
MaxLiveEdits == 1

VARIABLES
    \* DirectorPlan / PlanExecutor
    steps,              \* plan.steps: sequence of [step_id, dependencies]
    pc,                 \* "build" | "loop" | "done": position in execute_plan
    is_valid,           \* execute_plan local: plan.validate()[0]
    error,              \* execute_plan local: plan.validate()[1]
    sorted_steps,       \* execute_plan local: step ids in _topological_sort order
    idx,                \* position of the for loop in sorted_steps
    executed_steps,     \* self.executed_steps: step_id -> [success, result]
    successful_steps,   \* execute_plan local counter
    failed_steps,       \* execute_plan local counter
    dispatched,         \* history: step ids handed to a sub-agent, in order
    result,             \* the dict execute_plan returns
    \* DirectorVotingPhase
    voting_results,     \* step_id -> list of DirectorVote
    resolutions,        \* what resolve_votes returns (or the exception it raises)
    vpc,                \* "voting" | "resolved"
    \* DirectorVotingPhase._merge_modifications called on its own
    modifications_list, \* the argument
    merged,             \* the return value
    mpc,                \* "input" | "merged"
    \* DirectorOrchestrator.run_directors
    directors,          \* self.directors: the roster, a sequence of director ids
    phase,              \* the phase run_directors is in
    futures,            \* _parallel_analysis: director -> "pending" | "running" | "done"
    analyses,           \* _parallel_analysis local: DirectorAnalysis in completion order
    debate_messages,    \* _run_debate local: the transcript
    round_num,          \* _run_debate: the outer loop
    turn,               \* position of `for director in self.directors`
    plan,               \* run_directors local: the DirectorPlan
    vote_step,          \* run_voting: position of `for step in plan.steps`
    step_votes,         \* run_voting local
    run_result,         \* what run_directors returned or raised
    \* DirectorPlan.to_dict / DirectorPlan.from_dict
    source_plan,        \* the DirectorPlan that is serialized
    data,               \* the dict to_dict returned
    loaded,             \* the DirectorPlan from_dict returned
    \* VersionManager, VersionExecutor, VersionAwareToolRunner
    live,               \* app.project._data: the live project state
    _versions,          \* VersionManager._versions: the ids it holds
    snapshot,           \* Version.project_snapshot of every Version object
    _active_version_id, \* VersionManager._active_version_id
    status,             \* Version.status
    rpc,                \* where the background run of a version stands
    affinity,           \* the thread a version's tool runner lives in
    calls,              \* tool calls a version's run has issued
    _tool_count,        \* VersionAwareToolRunner._tool_count
    persisted,          \* history: tool results written to a version's snapshot
    version_context,    \* the version context of the base runner
    switch_ret,         \* what the last switch_to_version returned
    live_edits          \* history: edits of the live state outside any version

execVars == <<steps, pc, is_valid, error, sorted_steps, idx, executed_steps,
              successful_steps, failed_steps, dispatched, result>>
voteVars == <<voting_results, resolutions, vpc>>
mergeVars == <<modifications_list, merged, mpc>>
orchVars == <<directors, phase, futures, analyses, debate_messages, round_num,
              turn, plan, vote_step, step_votes, run_result>>
ioVars == <<source_plan, data, loaded>>
versionVars == <<live, _versions, snapshot, _active_version_id, status, rpc,
                 affinity, calls, _tool_count, persisted, version_context,
                 switch_ret, live_edits>>
vars == <<steps, pc, is_valid, error, sorted_steps, idx, executed_steps,
          successful_steps, failed_steps, dispatched, result,
          voting_results, resolutions, vpc, modifications_list, merged, mpc,
          directors, phase, futures, analyses, debate_messages, round_num,
          turn, plan, vote_step, step_votes, run_result,
          source_plan, data, loaded,
          live, _versions, snapshot, _active_version_id, status, rpc,
          affinity, calls, _tool_count, persisted, version_context,
          switch_ret, live_edits>>

\* ------------------------------------------------------------- utilities
Range(s) == {s[i] : i \in DOMAIN s}

SeqsUpTo(S, n) == UNION {[1..k -> S] : k \in 0..n}

EmptyDict == <<>>

None == "None"

\* ========================================================================
\* DirectorPlan
\* ========================================================================
PlanStep(id, deps) == [step_id |-> id, dependencies |-> deps]

NoStep == PlanStep(0, <<>>)

\* ids a dependency list may name: those of the steps a plan can hold and
\* one id no step ever carries
DepIds == 1..(MaxSteps + 1)

RECURSIVE TotalDeps(_)
TotalDeps(st) ==
    IF st = <<>> THEN 0
    ELSE Len(st[1].dependencies) + TotalDeps(Tail(st))

StepIds(st) == {st[i].step_id : i \in DOMAIN st}

\* next((s for s in self.steps if s.step_id == step_id), None)
FindStep(st, id) ==
    IF \E i \in DOMAIN st : st[i].step_id = id
    THEN st[CHOOSE i \in DOMAIN st :
                /\ st[i].step_id = id
                /\ \A j \in DOMAIN st : st[j].step_id = id => i <= j]
    ELSE NoStep

NoError == [msg |-> "", step |-> 0, dep |-> 0]

NonExistentError(sid, dep) ==
    [msg |-> "Step {step_id} depends on non-existent step {dep_id}",
     step |-> sid, dep |-> dep]

CircularError ==
    [msg |-> "Circular dependency detected in plan steps", step |-> 0, dep |-> 0]

\* for step in self.steps: for dep_id in step.dependencies:
\*     if dep_id not in step_ids: return False, ...
RECURSIVE InvalidDependency(_, _, _, _)
InvalidDependency(st, ids, i, j) ==
    IF i > Len(st) THEN NoError
    ELSE IF j > Len(st[i].dependencies) THEN InvalidDependency(st, ids, i + 1, 1)
    ELSE IF st[i].dependencies[j] \notin ids
         THEN NonExistentError(st[i].step_id, st[i].dependencies[j])
         ELSE InvalidDependency(st, ids, i, j + 1)

\* has_cycle(step_id) with the closure variables visited and rec_stack
\* threaded through: s = [visited, rec_stack], the value adds found.
RECURSIVE has_cycle(_, _, _)
RECURSIVE has_cycle_deps(_, _, _, _, _)
has_cycle(st, id, s) ==
    LET s1 == [visited |-> s.visited \cup {id}, rec_stack |-> s.rec_stack \cup {id}]
        step == FindStep(st, id)
    IN  IF step = NoStep
        THEN [found |-> FALSE, visited |-> s1.visited, rec_stack |-> s1.rec_stack]
        ELSE has_cycle_deps(st, id, step.dependencies, 1, s1)

\* has_cycle without rec_stack.remove(step_id)
RECURSIVE has_cycle_deps_no_remove(_, _, _, _, _)
has_cycle_deps_no_remove(st, id, deps, j, s) ==
    IF j > Len(deps)
    THEN [found |-> FALSE, visited |-> s.visited, rec_stack |-> s.rec_stack]
    ELSE IF deps[j] \notin s.visited
         THEN LET r == has_cycle(st, deps[j], s)
              IN  IF r.found THEN r
                  ELSE has_cycle_deps_no_remove(st, id, deps, j + 1,
                           [visited |-> r.visited, rec_stack |-> r.rec_stack])
         ELSE IF deps[j] \in s.rec_stack
              THEN [found |-> TRUE, visited |-> s.visited, rec_stack |-> s.rec_stack]
              ELSE has_cycle_deps_no_remove(st, id, deps, j + 1, s)

has_cycle_deps(st, id, deps, j, s) ==
    IF j > Len(deps)
    THEN [found |-> FALSE, visited |-> s.visited, rec_stack |-> s.rec_stack \ {id}]
    ELSE IF deps[j] \notin s.visited
         THEN LET r == has_cycle(st, deps[j], s)
              IN  IF r.found THEN r
                  ELSE has_cycle_deps(st, id, deps, j + 1,
                           [visited |-> r.visited, rec_stack |-> r.rec_stack])
         ELSE IF deps[j] \in s.rec_stack
              THEN [found |-> TRUE, visited |-> s.visited, rec_stack |-> s.rec_stack]
              ELSE has_cycle_deps(st, id, deps, j + 1, s)

\* for step in self.steps: if step.step_id not in visited: if has_cycle(...)
RECURSIVE CycleFrom(_, _, _)
CycleFrom(st, i, s) ==
    IF i > Len(st) THEN FALSE
    ELSE IF st[i].step_id \in s.visited THEN CycleFrom(st, i + 1, s)
    ELSE LET r == has_cycle(st, st[i].step_id, s)
         IN  IF r.found THEN TRUE
             ELSE CycleFrom(st, i + 1,
                      [visited |-> r.visited, rec_stack |-> r.rec_stack])

\* validate with the cycle check placed before the referential check
validate_cycle_first(st) ==
    LET bad == InvalidDependency(st, StepIds(st), 1, 1)
    IN  IF CycleFrom(st, 1, [visited |-> {}, rec_stack |-> {}])
        THEN [ok |-> FALSE, error |-> CircularError]
        ELSE IF bad # NoError THEN [ok |-> FALSE, error |-> bad]
             ELSE [ok |-> TRUE, error |-> NoError]

\* validate that accepts every plan
validate_accept_all(st) == [ok |-> TRUE, error |-> NoError]

\* DirectorPlan.validate
validate(st) ==
    LET bad == InvalidDependency(st, StepIds(st), 1, 1)
    IN  IF bad # NoError THEN [ok |-> FALSE, error |-> bad]
        ELSE IF CycleFrom(st, 1, [visited |-> {}, rec_stack |-> {}])
             THEN [ok |-> FALSE, error |-> CircularError]
             ELSE [ok |-> TRUE, error |-> NoError]

\* ========================================================================
\* PlanExecutor
\* ========================================================================

\* in_degree = {step.step_id: len(step.dependencies) for step in steps}
InDegree(st) == [id \in StepIds(st) |-> Len(FindStep(st, id).dependencies)]

\* queue = [step_id for step_id, degree in in_degree.items() if degree == 0]
RECURSIVE InitialQueue(_, _)
InitialQueue(st, i) ==
    IF i > Len(st) THEN <<>>
    ELSE IF Len(st[i].dependencies) = 0
         THEN <<st[i].step_id>> \o InitialQueue(st, i + 1)
         ELSE InitialQueue(st, i + 1)

\* for other_id in graph.keys(): if step_id in graph[other_id]:
\*     in_degree[other_id] -= 1; if in_degree[other_id] == 0: queue.append(other_id)
\* s = [in_degree, queue]
RECURSIVE ReduceInDegree(_, _, _, _)
ReduceInDegree(st, step_id, i, s) ==
    IF i > Len(st) THEN s
    ELSE LET other_id == st[i].step_id
         IN  IF step_id \in Range(st[i].dependencies)
             THEN LET deg == [s.in_degree EXCEPT ![other_id] = @ - 1]
                  IN  ReduceInDegree(st, step_id, i + 1,
                          [in_degree |-> deg,
                           queue |-> IF deg[other_id] = 0
                                     THEN Append(s.queue, other_id)
                                     ELSE s.queue])
             ELSE ReduceInDegree(st, step_id, i + 1, s)

\* while queue: step_id = queue.pop(0); sorted_ids.append(step_id); ...
RECURSIVE Kahn(_, _, _)
Kahn(st, s, sorted_ids) ==
    IF s.queue = <<>> THEN sorted_ids
    ELSE LET step_id == Head(s.queue)
         IN  Kahn(st,
                  ReduceInDegree(st, step_id, 1,
                      [in_degree |-> s.in_degree, queue |-> Tail(s.queue)]),
                  Append(sorted_ids, step_id))

\* no sorting: the steps in plan order
_topological_sort_plan_order(st) == [i \in DOMAIN st |-> st[i].step_id]

\* PlanExecutor._topological_sort, as the list of step ids
_topological_sort(st) ==
    Kahn(st, [in_degree |-> InDegree(st), queue |-> InitialQueue(st, 1)], <<>>)

\* _dependencies_met without the test of the recorded success
_dependencies_met_present(step, executed) ==
    \A j \in DOMAIN step.dependencies : step.dependencies[j] \in DOMAIN executed

\* PlanExecutor._dependencies_met
_dependencies_met(step, executed) ==
    \A j \in DOMAIN step.dependencies :
        /\ step.dependencies[j] \in DOMAIN executed
        /\ executed[step.dependencies[j]].success

\* What _execute_step can return.  The agent name is a field of the step
\* that is read once, here, so it is chosen when it is read:
\*   "unknown_agent" no sub-agent matches step.agent (nothing is called),
\*   "ok"            the sub-agent returned a text without "error",
\*   "failed"        the sub-agent returned an error text or raised.
Outcomes == {"ok", "failed", "unknown_agent"}

_execute_step(outcome) ==
    CASE outcome = "ok" -> [success |-> TRUE, result |-> "done"]
      [] outcome = "failed" -> [success |-> FALSE, result |-> "Error"]
      [] outcome = "unknown_agent" -> [success |-> FALSE, result |-> "Unknown agent"]

\* the dict returned at the end of execute_plan
FinalResult(st, ok_count, fail_count, executed) ==
    [success |-> (fail_count = 0),
     steps_executed |-> ok_count,
     steps_total |-> Len(st),
     steps_failed |-> fail_count,
     step_results |-> executed]

\* the dict returned when validation fails
InvalidResult(st, err) ==
    [success |-> FALSE, error |-> err, steps_executed |-> 0, steps_total |-> Len(st)]

NoResult == [success |-> None]

\* ------------------------------------------------------------- actions
\* plan.add_step(PlanStep(..., dependencies=deps))
AddStep(deps) ==
    /\ pc = "build"
    /\ Len(steps) < MaxSteps
    /\ Len(deps) + TotalDeps(steps) <= MaxDepEntries
    /\ steps' = Append(steps, PlanStep(Len(steps) + 1, deps))
    /\ UNCHANGED <<pc, is_valid, error, sorted_steps, idx, executed_steps,
                   successful_steps, failed_steps, dispatched, result>>
    /\ UNCHANGED <<voteVars, mergeVars, orchVars, ioVars, versionVars>>

\* execute_plan up to its first sub-agent call (or to its return)
ExecutePlan ==
    /\ pc = "build"
    /\ LET v == validate(steps)
           srt == _topological_sort(steps)
       IN  /\ is_valid' = v.ok
           /\ error' = v.error
           /\ executed_steps' = EmptyDict
           /\ successful_steps' = 0
           /\ failed_steps' = 0
           /\ idx' = 1
           /\ IF ~v.ok
              THEN /\ sorted_steps' = <<>>
                   /\ result' = InvalidResult(steps, v.error)
                   /\ pc' = "done"
              ELSE /\ sorted_steps' = srt
                   /\ IF srt = <<>>
                      THEN /\ result' = FinalResult(steps, 0, 0, EmptyDict)
                           /\ pc' = "done"
                      ELSE /\ result' = result
                           /\ pc' = "loop"
    /\ UNCHANGED <<steps, dispatched>>
    /\ UNCHANGED <<voteVars, mergeVars, orchVars, ioVars, versionVars>>

\* the end of one loop iteration: next step, or the return after the loop
LoopEnd(ok_count, fail_count, executed) ==
    /\ idx' = idx + 1
    /\ successful_steps' = ok_count
    /\ failed_steps' = fail_count
    /\ executed_steps' = executed
    /\ IF idx + 1 > Len(sorted_steps)
       THEN /\ pc' = "done"
            /\ result' = FinalResult(steps, ok_count, fail_count, executed)
       ELSE /\ pc' = "loop"
            /\ result' = result

\* loop iteration: dependencies not met, the step is skipped
SkipStep ==
    /\ pc = "loop"
    /\ idx <= Len(sorted_steps)
    /\ ~_dependencies_met(FindStep(steps, sorted_steps[idx]), executed_steps)
    /\ LoopEnd(successful_steps, failed_steps + 1, executed_steps)
    /\ UNCHANGED <<steps, is_valid, error, sorted_steps, dispatched>>
    /\ UNCHANGED <<voteVars, mergeVars, orchVars, ioVars, versionVars>>

\* loop iteration: dependencies met, _execute_step runs and is recorded
RunStep(outcome) ==
    /\ pc = "loop"
    /\ idx <= Len(sorted_steps)
    /\ LET id == sorted_steps[idx]
           r == _execute_step(outcome)
       IN  /\ _dependencies_met(FindStep(steps, id), executed_steps)
           /\ dispatched' = IF outcome = "unknown_agent" THEN dispatched
                            ELSE Append(dispatched, id)
           /\ LoopEnd(IF r.success THEN successful_steps + 1 ELSE successful_steps,
                      IF r.success THEN failed_steps ELSE failed_steps + 1,
                      (id :> r) @@ executed_steps)
    /\ UNCHANGED <<steps, is_valid, error, sorted_steps>>
    /\ UNCHANGED <<voteVars, mergeVars, orchVars, ioVars, versionVars>>

\* ========================================================================
\* DirectorVotingPhase
\* ========================================================================
VoteTypes == {"approve", "conditional", "reject"}

\* 0.7, in tenths: a / n >= 0.7 is computed as 10 * a >= 7 * n.  Python
\* divides two small ints into the nearest double and compares it with the
\* double nearest to 0.7; for n below 2^50 that is the exact comparison.
ThresholdTenths == 7

\* Values of a tool argument: numbers (int, float) and anything else (text).
Num(n) == [num |-> n]
Text(s) == [str |-> s]
IsNumeric(v) == DOMAIN v = {"num"}

\* suggested_modifications: {} , {"tool_args": {key: value}} or a dict
\* whose "tool_args" is not a dict
EmptyMods == [kind |-> "empty"]
ToolArgs(f) == [kind |-> "tool_args", tool_args |-> f]
NotDictToolArgs == [kind |-> "tool_args_not_dict"]

\* 'tool_args' in mods and isinstance(mods['tool_args'], dict)
HasToolArgs(mods) == mods.kind = "tool_args"

DirectorVote(director, step, vote, mods) ==
    [director_id |-> director, step_id |-> step, vote |-> vote,
     suggested_modifications |-> mods]

\* param_values[key]: the values proposed for key, in vote order
RECURSIVE ParamValues(_, _)
ParamValues(all_tool_args, key) ==
    IF all_tool_args = <<>> THEN <<>>
    ELSE (IF key \in DOMAIN Head(all_tool_args)
          THEN <<Head(all_tool_args)[key]>> ELSE <<>>)
         \o ParamValues(Tail(all_tool_args), key)

\* the lower middle index, (len - 1) // 2
MedianIndexLower(n) == ((n - 1) \div 2) + 1

\* median_idx = len(sorted_values) // 2 (0-based), as a 1-based index
MedianIndex(n) == (n \div 2) + 1

\* values[median_idx] without sorting
MedianUnsorted(values) == values[MedianIndex(Len(values))]

\* sorted(values)[median_idx]
Median(values) ==
    SortSeq(values, LAMBDA a, b : a.num < b.num)[MedianIndex(Len(values))]

\* the keys of Counter(values), in insertion (first seen) order
RECURSIVE CounterKeys(_, _)
CounterKeys(values, seen) ==
    IF values = <<>> THEN <<>>
    ELSE IF Head(values) \in seen THEN CounterKeys(Tail(values), seen)
    ELSE <<Head(values)>> \o CounterKeys(Tail(values), seen \cup {Head(values)})

CountOf(values, v) == Cardinality({i \in DOMAIN values : values[i] = v})

\* MaxByCount where a later key with an equal count replaces the best so far
RECURSIVE MaxByCountLast(_, _, _)
MaxByCountLast(values, keys, best) ==
    IF keys = <<>> THEN best
    ELSE MaxByCountLast(values, Tail(keys),
             IF CountOf(values, Head(keys)) >= CountOf(values, best)
             THEN Head(keys) ELSE best)

\* max(counter.items(), key=count): a later key replaces the best so far
\* only when its count is strictly greater
RECURSIVE MaxByCount(_, _, _)
MaxByCount(values, keys, best) ==
    IF keys = <<>> THEN best
    ELSE MaxByCount(values, Tail(keys),
             IF CountOf(values, Head(keys)) > CountOf(values, best)
             THEN Head(keys) ELSE best)

\* Counter(values).most_common(1)[0][0], values not empty
MostCommon(values) ==
    LET keys == CounterKeys(values, {})
    IN  MaxByCount(values, Tail(keys), Head(keys))

MergeValue(values) ==
    IF \A i \in DOMAIN values : IsNumeric(values[i])
    THEN Median(values)
    ELSE MostCommon(values)

\* DirectorVotingPhase._merge_modifications
_merge_modifications(mods_list) ==
    IF mods_list = <<>> THEN EmptyMods
    ELSE LET dicts == SelectSeq(mods_list, HasToolArgs)
             all_tool_args == [i \in DOMAIN dicts |-> dicts[i].tool_args]
             keys == UNION {DOMAIN all_tool_args[i] : i \in DOMAIN all_tool_args}
         IN  IF all_tool_args = <<>> THEN EmptyMods
             ELSE ToolArgs([key \in keys |->
                               MergeValue(ParamValues(all_tool_args, key))])

\* sum(1 for v in votes if v.vote == t)
RECURSIVE CountVotes(_, _)
CountVotes(votes, t) ==
    IF votes = <<>> THEN 0
    ELSE (IF Head(votes).vote = t THEN 1 ELSE 0) + CountVotes(Tail(votes), t)

IsConditional(v) == v.vote = "conditional"

Tally(a, c, r) == [approve |-> a, conditional |-> c, reject |-> r]

Resolution(approved, mods, consensus, tally) ==
    [approved |-> approved, modifications |-> mods, consensus |-> consensus,
     votes |-> tally]

ZeroDivisionError == [raised |-> "ZeroDivisionError"]

\* how a call of resolve_votes ends: it returns a dict or raises
Returned(d) == [raised |-> None, value |-> d]
Raised(e) == [raised |-> e.raised, value |-> EmptyDict]

\* ResolveStep with > in place of >= in the two rate tests
ResolveStepStrict(votes) ==
    LET approve_count == CountVotes(votes, "approve")
        conditional_count == CountVotes(votes, "conditional")
        reject_count == CountVotes(votes, "reject")
        total == Len(votes)
        tally == Tally(approve_count, conditional_count, reject_count)
        strong == total > 0 /\ 10 * approve_count > ThresholdTenths * total
    IN  IF strong
        THEN Resolution(TRUE, EmptyMods, "Strong approval", tally)
        ELSE IF total = 0
        THEN ZeroDivisionError
        ELSE IF 10 * (approve_count + conditional_count) > ThresholdTenths * total
        THEN LET cond == SelectSeq(votes, IsConditional)
             IN  Resolution(TRUE,
                     _merge_modifications(
                         [i \in DOMAIN cond |-> cond[i].suggested_modifications]),
                     "Conditional approval", tally)
        ELSE Resolution(FALSE, EmptyMods, "Insufficient consensus", tally)

\* ResolveStep where Conditional approval merges the modifications of all votes
ResolveStepAllMods(votes) ==
    LET approve_count == CountVotes(votes, "approve")
        conditional_count == CountVotes(votes, "conditional")
        reject_count == CountVotes(votes, "reject")
        total == Len(votes)
        tally == Tally(approve_count, conditional_count, reject_count)
        strong == total > 0 /\ 10 * approve_count >= ThresholdTenths * total
    IN  IF strong
        THEN Resolution(TRUE, EmptyMods, "Strong approval", tally)
        ELSE IF total = 0
        THEN ZeroDivisionError
        ELSE IF 10 * (approve_count + conditional_count) >= ThresholdTenths * total
        THEN Resolution(TRUE,
                 _merge_modifications(
                     [i \in DOMAIN votes |-> votes[i].suggested_modifications]),
                 "Conditional approval", tally)
        ELSE Resolution(FALSE, EmptyMods, "Insufficient consensus", tally)

\* one iteration of the loop of resolve_votes: the resolution of one step,
\* or the exception the iteration raises
ResolveStep(votes) ==
    LET approve_count == CountVotes(votes, "approve")
        conditional_count == CountVotes(votes, "conditional")
        reject_count == CountVotes(votes, "reject")
        total == Len(votes)
        tally == Tally(approve_count, conditional_count, reject_count)
        \* approval_rate = approve_count / total if total > 0 else 0
        strong == total > 0 /\ 10 * approve_count >= ThresholdTenths * total
    IN  IF strong
        THEN Resolution(TRUE, EmptyMods, "Strong approval", tally)
        ELSE IF total = 0
        THEN ZeroDivisionError  \* (approve_count + conditional_count) / total
        ELSE IF 10 * (approve_count + conditional_count) >= ThresholdTenths * total
        THEN LET cond == SelectSeq(votes, IsConditional)
             IN  Resolution(TRUE,
                     _merge_modifications(
                         [i \in DOMAIN cond |-> cond[i].suggested_modifications]),
                     "Conditional approval", tally)
        ELSE Resolution(FALSE, EmptyMods, "Insufficient consensus", tally)

\* DirectorVotingPhase.resolve_votes: the dict of resolutions, or the
\* exception that leaves the loop
resolve_votes(vr) ==
    IF \E s \in DOMAIN vr : ResolveStep(vr[s]) = ZeroDivisionError
    THEN Raised(ZeroDivisionError)
    ELSE Returned([s \in DOMAIN vr |-> ResolveStep(vr[s])])

NotResolved == Returned(EmptyDict)

\* the step the directors vote on
VotedStep == 1

\* what a director attaches to a vote in the voting specification
VoteMods == {ToolArgs("brightness" :> Num(2))}

\* run_voting: step_votes.append(vote) for the next director of the roster
CastVote(vote, mods) ==
    /\ vpc = "voting"
    /\ Len(voting_results[VotedStep]) < MaxVotes
    /\ voting_results' =
           [voting_results EXCEPT ![VotedStep] =
               Append(@, DirectorVote(Len(@) + 1, VotedStep, vote, mods))]
    /\ UNCHANGED <<resolutions, vpc>>
    /\ UNCHANGED <<execVars, mergeVars, orchVars, ioVars, versionVars>>

\* resolutions = voting_phase.resolve_votes(voting_results)
ResolveVotes ==
    /\ vpc = "voting"
    /\ resolutions' = resolve_votes(voting_results)
    /\ vpc' = "resolved"
    /\ UNCHANGED voting_results
    /\ UNCHANGED <<execVars, mergeVars, orchVars, ioVars, versionVars>>

\* ---------------------------------------------- _merge_modifications alone
ModKeys == {"brightness", "style"}

KeyValues(key) ==
    IF key = "brightness"
    THEN {Num(1), Num(2), Num(3), Text("warm"), Text("cool")}
    ELSE {Text("bold")}

ToolArgsDicts ==
    {f \in UNION {[K -> UNION {KeyValues(k) : k \in ModKeys}] : K \in SUBSET ModKeys} :
        \A k \in DOMAIN f : f[k] \in KeyValues(k)}

ModsDomain == {EmptyMods, NotDictToolArgs} \cup {ToolArgs(f) : f \in ToolArgsDicts}

MergeModifications ==
    /\ mpc = "input"
    /\ merged' = _merge_modifications(modifications_list)
    /\ mpc' = "merged"
    /\ UNCHANGED modifications_list
    /\ UNCHANGED <<execVars, voteVars, orchVars, ioVars, versionVars>>

\* ========================================================================
\* DirectorOrchestrator
\* ========================================================================
\* constructor defaults
max_debate_rounds == 3
max_workers == 3

\* the order of the phases of run_directors
Phases == <<"Analysis", "Debate", "Synthesis", "Voting", "Resolution", "Done">>

PhaseIndex(p) == CHOOSE i \in DOMAIN Phases : Phases[i] = p

\* run_directors runs Synthesis and then, by mistake, the debate again
PhaseAfterRedebate(p) ==
    IF p = "Synthesis" THEN "Debate"
    ELSE IF p = "Done" THEN "Done" ELSE Phases[PhaseIndex(p) + 1]

\* the statement order of run_directors: the phase that follows phase p
PhaseAfter(p) == IF p = "Done" THEN "Done" ELSE Phases[PhaseIndex(p) + 1]

\* the roster of n directors; director ids are the positions in the roster
Roster(n) == [i \in 1..n |-> i]

\* ------------------------------------------------------- Phase 1: analysis
\* confidence is kept in tenths: 8 is 0.8
DirectorAnalysis(d, confidence) == [director_id |-> d, confidence |-> confidence]

\* how a call of analyze_project ends: the agent run returns, it raises
\* inside the try block, or the statements before the try block raise
AnalysisOutcomes == {"ok", "error", "raises"}

\* Director.analyze_project
analyze_project(d, outcome) ==
    IF outcome = "raises" THEN [raised |-> TRUE]
    ELSE IF outcome = "error"
    THEN [raised |-> FALSE, value |-> DirectorAnalysis(d, 0)]
    ELSE [raised |-> FALSE, value |-> DirectorAnalysis(d, 8)]

\* the body of the as_completed loop: analysis = future.result(); append
CollectAnalysis(list, r) == IF r.raised THEN list ELSE Append(list, r.value)

\* the with block of the ThreadPoolExecutor is left when every future is done
AllCompleted(f) == \A d \in DOMAIN f : f[d] = "done"

\* --------------------------------------------------------- Phase 2: debate
DebateMessage(d, round, type) ==
    [director_id |-> d, round_number |-> round, message_type |-> type]

\* the round 0 messages, one per analysis
InitialMessages(list) ==
    [i \in DOMAIN list |-> DebateMessage(list[i].director_id, 0, "analysis")]

\* how a call of critique_peer_analysis ends
CritiqueOutcomes == {"returns", "raises"}

\* ------------------------------------------------------ Phase 3: synthesis
\* a step of the synthesized plan; uuid4 step ids are modelled as 1, 2, ...
SynthStep(id, tool_name, tool_args, confidence) ==
    [step_id |-> id, tool_name |-> tool_name, tool_args |-> tool_args,
     confidence |-> confidence, dependencies |-> <<>>,
     director_notes |-> EmptyDict]

\* _parse_plan_steps on a completion that describes n steps
ParsedSteps(n) ==
    [i \in 1..n |->
        SynthStep(i, "add_effect",
                  ("clip_id" :> Text("clip_002")) @@ ("brightness" :> Num(2)), 7)]

\* the step of the except branch of _synthesize_consensus
FallbackStep == SynthStep(1, "manual_review", EmptyDict, 5)

\* plan.confidence: 0.0, or the mean of the analyses' confidences as the
\* fraction sum / count
NoConfidence == [sum |-> 0, count |-> 1]

RECURSIVE SumConfidence(_)
SumConfidence(list) ==
    IF list = <<>> THEN 0
    ELSE Head(list).confidence + SumConfidence(Tail(list))

DirectorPlan(plan_steps, transcript, confidence) ==
    [steps |-> plan_steps, debate_transcript |-> transcript,
     confidence |-> confidence, metadata |-> EmptyDict]

NoPlan == DirectorPlan(<<>>, <<>>, NoConfidence)

\* how the synthesis completion ends: it raises, or it describes n steps
SynthFails == [kind |-> "fails"]
SynthSteps(n) == [kind |-> "steps", n |-> n]

\* _synthesize_consensus whose except branch adds no step
_synthesize_consensus_no_fallback(list, messages, outcome) ==
    DirectorPlan(
        IF outcome.kind = "fails" THEN <<>> ELSE ParsedSteps(outcome.n),
        messages,
        IF list # <<>>
        THEN [sum |-> SumConfidence(list), count |-> Len(list)]
        ELSE NoConfidence)

\* DirectorOrchestrator._synthesize_consensus
_synthesize_consensus(list, messages, outcome) ==
    DirectorPlan(
        IF outcome.kind = "fails" THEN <<FallbackStep>> ELSE ParsedSteps(outcome.n),
        messages,
        IF list # <<>>
        THEN [sum |-> SumConfidence(list), count |-> Len(list)]
        ELSE NoConfidence)

\* --------------------------------------------------------- Phase 4: voting
Vote(d, s, vote, confidence, rationale, mods) ==
    [director_id |-> d, step_id |-> s, vote |-> vote, confidence |-> confidence,
     rationale |-> rationale, suggested_modifications |-> mods]

\* the vote of the except branch of run_voting
DefaultVoteOnError(d, s) ==
    Vote(d, s, "approve", 5, <<"Default vote due to error">>, EmptyMods)

\* the vote of the except branch of _get_director_vote; e is str(e)
DefaultVoteOnParseError(d, s, e) ==
    Vote(d, s, "approve", 6, <<"Default approve (parsing error: ", e, ")">>, EmptyMods)

\* What a vote call meets: building the prompt raises, the completion call
\* raises, the completion holds no {...}, the text between the first { and
\* the last } is not JSON, or it is a JSON object.
PromptRaises == [kind |-> "prompt_raises"]
InvokeRaises == [kind |-> "invoke_raises"]
NoJson == [kind |-> "no_json"]
BadJson == [kind |-> "bad_json"]
\* {"vote": v, "confidence": 0.8, "rationale": ..., "suggested_modifications": m}
VoteObject(v, m) == [kind |-> "object", vote |-> v, suggested_modifications |-> m]
\* {}
BareObject == [kind |-> "bare_object"]

\* str.lower on the vote strings a completion holds
Lower(s) ==
    IF s = "APPROVE" THEN "approve"
    ELSE IF s = "CONDITIONAL" THEN "conditional"
    ELSE IF s = "REJECT" THEN "reject"
    ELSE s

\* vote_str = vote_data.get('vote', 'approve').lower(), replaced by
\* 'approve' when it is none of the three vote types
VoteStr(s) == IF Lower(s) \in VoteTypes THEN Lower(s) ELSE "approve"

\* str(e) of the exception the try block of _get_director_vote raises
ErrorText(response) ==
    IF response.kind = "no_json" THEN "No JSON found in response"
    ELSE IF response.kind = "bad_json" THEN "JSONDecodeError"
    ELSE "completion error"

\* _get_director_vote without its try block: every exception leaves it
_get_director_vote_uncaught(d, s, response) ==
    IF response.kind \in {"prompt_raises", "invoke_raises", "no_json", "bad_json"}
    THEN [raised |-> TRUE]
    ELSE IF response.kind = "bare_object"
    THEN [raised |-> FALSE,
          value |-> Vote(d, s, "approve", 7, <<"No rationale provided">>, EmptyMods)]
    ELSE [raised |-> FALSE,
          value |-> Vote(d, s, VoteStr(response.vote), 8, <<"given">>,
                         response.suggested_modifications)]

\* DirectorVotingPhase._get_director_vote: the vote it returns, or raised
\* when the statements before its try block raise
_get_director_vote(d, s, response) ==
    IF response.kind = "prompt_raises"
    THEN [raised |-> TRUE]
    ELSE IF response.kind \in {"invoke_raises", "no_json", "bad_json"}
    THEN [raised |-> FALSE,
          value |-> DefaultVoteOnParseError(d, s, ErrorText(response))]
    ELSE IF response.kind = "bare_object"
    THEN [raised |-> FALSE,
          value |-> Vote(d, s, "approve", 7, <<"No rationale provided">>, EmptyMods)]
    ELSE [raised |-> FALSE,
          value |-> Vote(d, s, VoteStr(response.vote), 8, <<"given">>,
                         response.suggested_modifications)]

\* the body of the inner loop of run_voting, with a vote dropped on error
StepVoteDropOnError(d, s, response) ==
    LET r == _get_director_vote(d, s, response)
    IN  IF r.raised THEN <<>> ELSE <<r.value>>

\* the body of the inner loop of run_voting: what is appended to step_votes
StepVote(d, s, response) ==
    LET r == _get_director_vote(d, s, response)
    IN  IF r.raised THEN <<DefaultVoteOnError(d, s)>> ELSE <<r.value>>

\* ----------------------------------------------------- Phase 5: resolution
\* a step resolved as not approved is dropped from the plan
ApplyResolutionDropRejected(st, res) ==
    IF st.step_id \in DOMAIN res /\ ~res[st.step_id].approved
    THEN <<>>
    ELSE <<st>>

\* the loop body with step.tool_args = tool_args_mods in place of update
ApplyResolutionReplaceArgs(st, res) ==
    IF st.step_id \notin DOMAIN res THEN <<st>>
    ELSE LET r == res[st.step_id]
         IN  IF ~r.approved THEN <<[st EXCEPT !.confidence = 3]>>
             ELSE IF r.modifications.kind # "empty"
             THEN <<[st EXCEPT !.tool_args = r.modifications.tool_args]>>
             ELSE <<st>>

\* the body of the loop of _apply_voting_resolutions: what is appended to
\* filtered_steps for the step st
ApplyResolution(st, res) ==
    IF st.step_id \notin DOMAIN res THEN <<st>>
    ELSE LET r == res[st.step_id]
             breakdown == "vote_breakdown" :> r.votes
         IN  IF ~r.approved
             THEN <<[st EXCEPT
                      !.director_notes =
                          breakdown
                          @@ ("voting" :> [prefix |-> "Rejected by directors: ",
                                           consensus |-> r.consensus])
                          @@ @,
                      !.confidence = 3]>>
             ELSE IF r.modifications.kind # "empty"
             THEN IF DOMAIN r.modifications.tool_args # {}
                  THEN <<[st EXCEPT
                           !.tool_args = r.modifications.tool_args @@ @,
                           !.director_notes =
                               breakdown
                               @@ ("voting" :> [prefix |-> "Modified: ",
                                                consensus |-> r.consensus])
                               @@ ("modifications" :> r.modifications.tool_args)
                               @@ @]>>
                  ELSE <<[st EXCEPT !.director_notes = breakdown @@ @]>>
             ELSE <<[st EXCEPT
                      !.director_notes =
                          breakdown
                          @@ ("voting" :> [prefix |-> "", consensus |-> r.consensus])
                          @@ @]>>

\* filtered_steps after the loop over plan.steps
RECURSIVE FilteredSteps(_, _)
FilteredSteps(plan_steps, res) ==
    IF plan_steps = <<>> THEN <<>>
    ELSE ApplyResolution(Head(plan_steps), res) \o FilteredSteps(Tail(plan_steps), res)

\* DirectorOrchestrator._apply_voting_resolutions
_apply_voting_resolutions(p, vr, res) ==
    [p EXCEPT
        !.steps = FilteredSteps(p.steps, res),
        !.metadata = ("voting_results" :> vr) @@ ("resolutions" :> res)]

\* what run_directors hands to its caller
NotReturned == [kind |-> "running"]
ReturnedPlan(p) == [kind |-> "plan", plan |-> p]
RaisedToCaller(e) == [kind |-> "raised", error |-> e]

\* run_directors without the try block around voting and resolution
OnVotingErrorReraise(p, e) == RaisedToCaller(e)

\* the except branch of run_directors around voting and resolution: the
\* error is logged and the plan of the synthesis is returned
OnVotingError(p, e) == ReturnedPlan(p)

\* ------------------------------------------------- bounds of the run model
\* Calls that end otherwise than the nominal way (an analysis that fails, a
\* critique that raises, a synthesis that fails, a vote other than a parsed
\* plain approve) are counted from the state and bounded by MaxDeviations.
DoneFutures == {d \in DOMAIN futures : futures[d] = "done"}

AnalysisDeviations ==
    (Cardinality(DoneFutures) - Len(analyses))
    + Cardinality({i \in DOMAIN analyses : analyses[i].confidence = 0})

CritiquesDue ==
    IF phase = "Analysis" THEN 0
    ELSE IF phase = "Debate"
    THEN (round_num - 1) * Len(directors) + (turn - 1)
    ELSE max_debate_rounds * Len(directors)

Critiques == {i \in DOMAIN debate_messages : debate_messages[i].message_type = "critique"}

DebateDeviations == CritiquesDue - Cardinality(Critiques)

SynthDeviations ==
    IF plan.steps # <<>> /\ plan.steps[1].tool_name = "manual_review" THEN 1 ELSE 0

IsNominalVote(v) ==
    /\ v.vote = "approve"
    /\ v.confidence = 8
    /\ v.suggested_modifications.kind = "empty"

OtherVotes(votes) == Cardinality({i \in DOMAIN votes : ~IsNominalVote(votes[i])})

RECURSIVE StoredOtherVotes(_)
StoredOtherVotes(n) ==
    IF n = 0 THEN 0
    ELSE (IF n \in DOMAIN voting_results THEN OtherVotes(voting_results[n]) ELSE 0)
         + StoredOtherVotes(n - 1)

VoteDeviations == OtherVotes(step_votes) + StoredOtherVotes(Len(plan.steps))

Deviations ==
    AnalysisDeviations + DebateDeviations + SynthDeviations + VoteDeviations

WithinBounds(nominal) == nominal \/ Deviations < MaxDeviations

\* ---------------------------------------------------------------- actions
\* a worker thread of the pool takes the next submitted analyze_project call
StartAnalysis(d) ==
    /\ phase = "Analysis"
    /\ futures[d] = "pending"
    /\ \A e \in DOMAIN futures : e < d => futures[e] # "pending"
    /\ Cardinality({e \in DOMAIN futures : futures[e] = "running"}) < max_workers
    /\ futures' = [futures EXCEPT ![d] = "running"]
    /\ UNCHANGED <<directors, phase, analyses, debate_messages, round_num, turn,
                   plan, vote_step, step_votes, run_result>>
    /\ UNCHANGED <<execVars, voteVars, mergeVars, ioVars, versionVars>>

\* a running analyze_project call ends and as_completed hands its future to
\* the loop of _parallel_analysis
CompleteAnalysis(d, outcome) ==
    /\ phase = "Analysis"
    /\ futures[d] = "running"
    /\ WithinBounds(outcome = "ok")
    /\ futures' = [futures EXCEPT ![d] = "done"]
    /\ analyses' = CollectAnalysis(analyses, analyze_project(directors[d], outcome))
    /\ UNCHANGED <<directors, phase, debate_messages, round_num, turn,
                   plan, vote_step, step_votes, run_result>>
    /\ UNCHANGED <<execVars, voteVars, mergeVars, ioVars, versionVars>>

\* _parallel_analysis returns; _run_debate appends the round 0 messages
ReturnAnalyses ==
    /\ phase = "Analysis"
    /\ AllCompleted(futures)
    /\ phase' = PhaseAfter(phase)
    /\ debate_messages' = InitialMessages(analyses)
    /\ round_num' = 1
    /\ turn' = 1
    /\ UNCHANGED <<directors, futures, analyses, plan, vote_step, step_votes,
                   run_result>>
    /\ UNCHANGED <<execVars, voteVars, mergeVars, ioVars, versionVars>>

\* one pass of the inner loop of _run_debate
Critique(outcome) ==
    /\ phase = "Debate"
    /\ round_num <= max_debate_rounds
    /\ turn <= Len(directors)
    /\ WithinBounds(outcome = "returns")
    /\ debate_messages' =
           IF outcome = "returns"
           THEN Append(debate_messages,
                       DebateMessage(directors[turn], round_num, "critique"))
           ELSE debate_messages
    /\ IF turn = Len(directors)
       THEN round_num' = round_num + 1 /\ turn' = 1
       ELSE round_num' = round_num /\ turn' = turn + 1
    /\ UNCHANGED <<directors, phase, futures, analyses, plan, vote_step,
                   step_votes, run_result>>
    /\ UNCHANGED <<execVars, voteVars, mergeVars, ioVars, versionVars>>

\* _run_debate returns after the last round
ReturnDebate ==
    /\ phase = "Debate"
    /\ round_num > max_debate_rounds \/ directors = <<>>
    /\ phase' = PhaseAfter(phase)
    /\ UNCHANGED <<directors, futures, analyses, debate_messages, round_num, turn,
                   plan, vote_step, step_votes, run_result>>
    /\ UNCHANGED <<execVars, voteVars, mergeVars, ioVars, versionVars>>

\* plan = self._synthesize_consensus(...); run_voting starts
Synthesize(outcome) ==
    /\ phase = "Synthesis"
    /\ WithinBounds(outcome.kind = "steps")
    /\ plan' = _synthesize_consensus(analyses, debate_messages, outcome)
    /\ phase' = PhaseAfter(phase)
    /\ voting_results' = EmptyDict
    /\ vote_step' = 1
    /\ turn' = 1
    /\ step_votes' = <<>>
    /\ UNCHANGED <<directors, futures, analyses, debate_messages, round_num,
                   run_result>>
    /\ UNCHANGED <<resolutions, vpc>>
    /\ UNCHANGED <<execVars, mergeVars, ioVars, versionVars>>

\* one pass of the inner loop of run_voting
GetDirectorVote(response) ==
    /\ phase = "Voting"
    /\ vote_step <= Len(plan.steps)
    /\ turn <= Len(directors)
    /\ LET added == StepVote(directors[turn], plan.steps[vote_step].step_id, response)
       IN  /\ WithinBounds(\A i \in DOMAIN added : IsNominalVote(added[i]))
           /\ step_votes' = step_votes \o added
    /\ turn' = turn + 1
    /\ UNCHANGED <<directors, phase, futures, analyses, debate_messages, round_num,
                   plan, vote_step, run_result>>
    /\ UNCHANGED <<execVars, voteVars, mergeVars, ioVars, versionVars>>

\* voting_results[step.step_id] = step_votes, and the next step or the
\* return of run_voting
StoreStepVotes ==
    /\ phase = "Voting"
    /\ vote_step <= Len(plan.steps)
    /\ turn > Len(directors)
    /\ voting_results' = (plan.steps[vote_step].step_id :> step_votes) @@ voting_results
    /\ step_votes' = <<>>
    /\ turn' = 1
    /\ vote_step' = vote_step + 1
    /\ phase' = IF vote_step = Len(plan.steps) THEN PhaseAfter(phase) ELSE phase
    /\ UNCHANGED <<directors, futures, analyses, debate_messages, round_num, plan,
                   run_result>>
    /\ UNCHANGED <<resolutions, vpc>>
    /\ UNCHANGED <<execVars, mergeVars, ioVars, versionVars>>

\* resolutions = resolve_votes(voting_results);
\* plan = _apply_voting_resolutions(plan, voting_results, resolutions);
\* return plan -- or the except branch when one of them raises
ResolveAndApply ==
    /\ phase = "Resolution"
    /\ LET r == resolve_votes(voting_results)
       IN  /\ resolutions' = r
           /\ IF r.raised # None
              THEN /\ plan' = plan
                   /\ run_result' = OnVotingError(plan, r.raised)
              ELSE /\ plan' = _apply_voting_resolutions(plan, voting_results, r.value)
                   /\ run_result' = ReturnedPlan(plan')
    /\ phase' = PhaseAfter(phase)
    /\ UNCHANGED <<directors, futures, analyses, debate_messages, round_num, turn,
                   vote_step, step_votes>>
    /\ UNCHANGED <<voting_results, vpc>>
    /\ UNCHANGED <<execVars, mergeVars, ioVars, versionVars>>

\* run_directors has been called with a roster of n directors and has
\* submitted one analyze_project call per director
OrchStart(n) ==
    /\ directors = Roster(n)
    /\ phase = "Analysis"
    /\ futures = [d \in 1..n |-> "pending"]
    /\ analyses = <<>>
    /\ debate_messages = <<>>
    /\ round_num = 1
    /\ turn = 1
    /\ plan = NoPlan
    /\ vote_step = 1
    /\ step_votes = <<>>
    /\ run_result = NotReturned

OrchIdle == OrchStart(0)

\* ========================================================================
\* DirectorPlan.to_dict / DirectorPlan.from_dict (director_plan.py)
\* ========================================================================
\* a member of the enum PlanStepType, by name
PlanStepType(name) == [enum |-> "PlanStepType", name |-> name]

\* PlanStepType.X.value
TypeValue(t) == IF t.name = "ADD_EFFECT" THEN "add_effect" ELSE "edit_timeline"

\* PlanStepType(value): the member with that value
TypeOfValue(v) ==
    IF v = "add_effect" THEN PlanStepType("ADD_EFFECT")
    ELSE PlanStepType("EDIT_TIMELINE")

\* a PlanStep object with the fields to_dict writes
FullPlanStep(id, type, tool_args, confidence, dependencies) ==
    [step_id |-> id, type |-> type, tool_args |-> tool_args,
     confidence |-> confidence, dependencies |-> dependencies,
     director_notes |-> EmptyDict]

\* PlanStep.to_dict
PlanStep_to_dict(st) ==
    [step_id |-> st.step_id, type |-> TypeValue(st.type),
     tool_args |-> st.tool_args, confidence |-> st.confidence,
     dependencies |-> st.dependencies, director_notes |-> st.director_notes]

\* PlanStep.from_dict: data_copy['type'] = PlanStepType(...); cls(**data_copy)
PlanStep_from_dict(d) ==
    [step_id |-> d.step_id, type |-> TypeOfValue(d.type),
     tool_args |-> d.tool_args, confidence |-> d.confidence,
     dependencies |-> d.dependencies, director_notes |-> d.director_notes]

\* dict.get(key, default)
Get(d, key, default) == IF key \in DOMAIN d THEN d[key] ELSE default

\* what DirectorPlan.__init__ sets on the plan from_dict creates: a new
\* uuid4 plan id and the time of the call
FreshPlanId == 0
NewPlan ==
    [plan_id |-> FreshPlanId, steps |-> <<>>, alternatives |-> <<>>,
     confidence |-> 0, created_at |-> "load time", metadata |-> EmptyDict]

\* DirectorPlan.to_dict
DirectorPlan_to_dict(p) ==
    [plan_id |-> p.plan_id,
     steps |-> [i \in DOMAIN p.steps |-> PlanStep_to_dict(p.steps[i])],
     alternatives |-> p.alternatives,
     confidence |-> p.confidence,
     created_at |-> <<"isoformat", p.created_at>>,
     metadata |-> p.metadata]

\* DirectorPlan.from_dict that keeps the plan id __init__ drew
DirectorPlan_from_dict_new_id(d) ==
    [NewPlan EXCEPT
        !.steps = [i \in DOMAIN Get(d, "steps", <<>>) |->
                      PlanStep_from_dict(Get(d, "steps", <<>>)[i])],
        !.confidence = Get(d, "confidence", 0),
        !.metadata = Get(d, "metadata", EmptyDict)]

\* DirectorPlan.from_dict: alternatives and created_at are not read back
DirectorPlan_from_dict(d) ==
    [NewPlan EXCEPT
        !.plan_id = Get(d, "plan_id", FreshPlanId),
        !.steps = [i \in DOMAIN Get(d, "steps", <<>>) |->
                      PlanStep_from_dict(Get(d, "steps", <<>>)[i])],
        !.confidence = Get(d, "confidence", 0),
        !.metadata = Get(d, "metadata", EmptyDict)]

\* a variable that holds no object yet, and one that holds the object x
Absent == [kind |-> "none"]
Present(x) == [kind |-> "value", value |-> x]

\* ---------------------------------------------------------------- actions
\* data = plan.to_dict()
ToDict ==
    /\ data = Absent
    /\ data' = Present(DirectorPlan_to_dict(source_plan))
    /\ UNCHANGED <<source_plan, loaded>>
    /\ UNCHANGED <<execVars, voteVars, mergeVars, orchVars, versionVars>>

\* loaded = DirectorPlan.from_dict(data)
FromDict ==
    /\ data # Absent
    /\ loaded = Absent
    /\ loaded' = Present(DirectorPlan_from_dict(data.value))
    /\ UNCHANGED <<source_plan, data>>
    /\ UNCHANGED <<execVars, voteVars, mergeVars, orchVars, versionVars>>

\* the plans of n steps that are serialized: step i has the id i, one of
\* two types, the confidence 0.7 or 0.3 and a dependencies list that is
\* empty or names one id once or twice
PlansOf(n) ==
    LET DepLists == {<<>>} \cup {<<a>> : a \in 1..MaxIoSteps}
                           \cup {<<a, a>> : a \in 1..MaxIoSteps}
        StepsAt(i) ==
            {FullPlanStep(i, PlanStepType(t), "brightness" :> Num(2), c, deps) :
                t \in {"EDIT_TIMELINE", "ADD_EFFECT"}, c \in {3, 7},
                deps \in DepLists}
    IN  {[plan_id |-> id, steps |-> st, alternatives |-> <<"alternative">>,
          confidence |-> 8, created_at |-> "creation time",
          metadata |-> EmptyDict] :
            id \in {1, 2},
            st \in {f \in [1..n -> UNION {StepsAt(i) : i \in 1..n}] :
                       \A i \in 1..n : f[i] \in StepsAt(i)}}

IoIdle ==
    /\ source_plan = NewPlan
    /\ data = Absent
    /\ loaded = Absent

\* ========================================================================
\* Parallel versions (version_manager.py, version_executor.py)
\*
\* A project state is the set of the edits made to it.  Version ids are
\* uuid4 strings in the program; the model numbers the versions in the
\* order of their creation.  A Version object lives on after
\* delete_version while its background run holds it, so snapshot, status
\* and the run's fields are kept per created version and _versions holds
\* the ids the manager still knows.
\* ========================================================================
\* None, as the value of _active_version_id and of the context's version id
NoVersion == 0

\* the Qt main thread; the worker thread of version v's run is thread v
MainThread == 0

VersionIds == 1..MaxVersions

\* the edit tool call n of version v's run makes; v = NoVersion: edit n
\* made to the live state outside any version
Mark(v, n) == <<v, n>>

\* ------------------------------------------------- MainThreadToolRunner
\* the version context of the base runner: none, or a version id and the
\* state its tools work on
NoContext == [id |-> NoVersion, state |-> {}]

\* base_runner.set_version_context(version_id, project_snapshot)
set_version_context(id, state) == [id |-> id, state |-> state]

\* base_runner.run_tool under a version context: the tool edits the state
\* of the context
base_run_tool(ctx, mark) == [ctx EXCEPT !.state = @ \cup {mark}]

\* base_runner.get_version_state(version_id): the state of that version's
\* context, None when the context is not that version's
get_version_state(ctx, id) ==
    IF ctx.id = id /\ id # NoVersion
    THEN [found |-> TRUE, state |-> ctx.state]
    ELSE [found |-> FALSE]

\* base_runner.clear_version_context()
clear_version_context(ctx) == NoContext

\* ------------------------------------------------------- VersionExecutor
\* _run_version_in_thread without the check of the runner's thread: a
\* runner that could not be moved stays in the worker thread
BindRunnerUnchecked(v, moved) ==
    [raised |-> FALSE, thread |-> IF moved THEN MainThread ELSE v]

\* _run_version_in_thread, lines 94-104: version_runner.moveToThread(main
\* thread), and RuntimeError unless the runner is on the main thread then
BindRunner(v, moved) ==
    IF moved THEN [raised |-> FALSE, thread |-> MainThread]
    ELSE [raised |-> TRUE, thread |-> v]

\* the versions whose run_tool call is being executed
Executing == {v \in DOMAIN rpc : rpc[v] \in {"in_tool", "tool_ok", "tool_raised"}}

\* the threads that are executing a run_tool slot
BusyThreads == {affinity[v] : v \in Executing}

\* ------------------------------------------------ VersionAwareToolRunner
\* run_tool that writes the updated state to the active version
PersistTargetActive(v, active) == IF active # NoVersion THEN active ELSE v

\* run_tool, line 232: the Version whose project_snapshot is replaced
PersistTarget(v, active) == v

\* run_tool that clears the context after the persist, with no finally
ContextAfterCallNoFinally(ctx, raised) ==
    IF raised THEN ctx ELSE clear_version_context(ctx)

\* run_tool, lines 233-238: the finally block
ContextAfterCall(ctx, raised) == clear_version_context(ctx)

\* -------------------------------------------------------- VersionManager
\* delete_version that leaves _active_version_id alone
ActiveAfterDeleteKept(active, id) == active

\* delete_version, lines 174-176
ActiveAfterDelete(active, id) == IF active = id THEN NoVersion ELSE active

\* switch_to_version, lines 209-213: the snapshots after the live state
\* has been saved to the active version
SaveToActive(snaps, known, active, state) ==
    IF active # NoVersion /\ active \in known
    THEN [snaps EXCEPT ![active] = state]
    ELSE snaps

RECURSIVE TotalCalls(_, _)
\* the tool calls the runs of the versions vs have issued so far
TotalCalls(c, vs) ==
    IF vs = {} THEN 0
    ELSE LET v == CHOOSE x \in vs : TRUE
         IN  c[v] + TotalCalls(c, vs \ {v})

\* ---------------------------------------------------------------- actions
\* VersionManager.create_version on a copy of the live state, as
\* spawn_parallel_versions calls it, with or without execute_version
CreateVersion(submit) ==
    /\ Cardinality(DOMAIN snapshot) < MaxVersions
    /\ LET id == Cardinality(DOMAIN snapshot) + 1
       IN  /\ snapshot' = snapshot @@ (id :> live)
           /\ _versions' = _versions \cup {id}
           /\ status' = status @@ (id :> "pending")
           /\ rpc' = rpc @@ (id :> IF submit THEN "submitted" ELSE "none")
           /\ affinity' = affinity @@ (id :> id)
           /\ calls' = calls @@ (id :> 0)
           /\ _tool_count' = _tool_count @@ (id :> 0)
           /\ persisted' = persisted @@ (id :> {})
    /\ UNCHANGED <<live, _active_version_id, version_context, switch_ret,
                   live_edits>>
    /\ UNCHANGED <<execVars, voteVars, mergeVars, orchVars, ioVars>>

\* _run_version_in_thread up to the call of the sub-agent
StartRun(v, moved) ==
    /\ v \in DOMAIN rpc
    /\ rpc[v] = "submitted"
    /\ LET b == BindRunner(v, moved)
       IN  IF b.raised
           THEN /\ status' = [status EXCEPT ![v] = "failed"]
                /\ rpc' = [rpc EXCEPT ![v] = "finished"]
                /\ UNCHANGED affinity
           ELSE /\ status' = [status EXCEPT ![v] = "running"]
                /\ rpc' = [rpc EXCEPT ![v] = "running"]
                /\ affinity' = [affinity EXCEPT ![v] = b.thread]
    /\ UNCHANGED <<live, _versions, snapshot, _active_version_id, calls,
                   _tool_count, persisted, version_context, switch_ret,
                   live_edits>>
    /\ UNCHANGED <<execVars, voteVars, mergeVars, orchVars, ioVars>>

\* the sub-agent of version v calls a tool: the call is queued for the
\* thread of the runner and the run blocks until it has returned
RequestTool(v) ==
    /\ v \in DOMAIN rpc
    /\ rpc[v] = "running"
    /\ TotalCalls(calls, DOMAIN calls) < MaxToolCalls
    /\ rpc' = [rpc EXCEPT ![v] = "requested"]
    /\ calls' = [calls EXCEPT ![v] = @ + 1]
    /\ UNCHANGED <<live, _versions, snapshot, _active_version_id, status,
                   affinity, _tool_count, persisted, version_context,
                   switch_ret, live_edits>>
    /\ UNCHANGED <<execVars, voteVars, mergeVars, orchVars, ioVars>>

\* run_tool, lines 197-223: the runner's thread takes the call and sets
\* the version context
BeginTool(v) ==
    /\ v \in DOMAIN rpc
    /\ rpc[v] = "requested"
    /\ affinity[v] \notin BusyThreads
    /\ rpc' = [rpc EXCEPT ![v] = "in_tool"]
    /\ version_context' = set_version_context(v, snapshot[v])
    /\ UNCHANGED <<live, _versions, snapshot, _active_version_id, status,
                   affinity, calls, _tool_count, persisted, switch_ret,
                   live_edits>>
    /\ UNCHANGED <<execVars, voteVars, mergeVars, orchVars, ioVars>>

\* run_tool, line 226: base_runner.run_tool returns or raises
ToolBody(v, raised) ==
    /\ v \in DOMAIN rpc
    /\ rpc[v] = "in_tool"
    /\ IF raised
       THEN /\ rpc' = [rpc EXCEPT ![v] = "tool_raised"]
            /\ UNCHANGED <<version_context, live>>
       ELSE /\ rpc' = [rpc EXCEPT ![v] = "tool_ok"]
            /\ IF version_context.id # NoVersion
               THEN /\ version_context' =
                           base_run_tool(version_context, Mark(v, calls[v]))
                    /\ UNCHANGED live
               ELSE /\ live' = live \cup {Mark(v, calls[v])}
                    /\ UNCHANGED version_context
    /\ UNCHANGED <<_versions, snapshot, _active_version_id, status, affinity,
                   calls, _tool_count, persisted, switch_ret, live_edits>>
    /\ UNCHANGED <<execVars, voteVars, mergeVars, orchVars, ioVars>>

\* run_tool, lines 229-260: the updated state is written to the Version,
\* the context is cleared and the result or the error text is returned
EndTool(v) ==
    /\ v \in DOMAIN rpc
    /\ rpc[v] \in {"tool_ok", "tool_raised"}
    /\ LET raised == rpc[v] = "tool_raised"
           updated_state == get_version_state(version_context, v)
           target == PersistTarget(v, _active_version_id)
       IN  /\ IF ~raised /\ updated_state.found
              THEN /\ snapshot' = [snapshot EXCEPT ![target] = updated_state.state]
                   /\ persisted' = [persisted EXCEPT ![v] = @ \cup {Mark(v, calls[v])}]
              ELSE UNCHANGED <<snapshot, persisted>>
           /\ version_context' = ContextAfterCall(version_context, raised)
           /\ _tool_count' = IF raised THEN _tool_count
                             ELSE [_tool_count EXCEPT ![v] = @ + 1]
    /\ rpc' = [rpc EXCEPT ![v] = "running"]
    /\ UNCHANGED <<live, _versions, _active_version_id, status, affinity,
                   calls, switch_ret, live_edits>>
    /\ UNCHANGED <<execVars, voteVars, mergeVars, orchVars, ioVars>>

\* _run_version_in_thread after the sub-agent has returned or raised
FinishRun(v, ok) ==
    /\ v \in DOMAIN rpc
    /\ rpc[v] = "running"
    /\ rpc' = [rpc EXCEPT ![v] = "finished"]
    /\ status' = [status EXCEPT ![v] = IF ok THEN "completed" ELSE "failed"]
    /\ UNCHANGED <<live, _versions, snapshot, _active_version_id, affinity,
                   calls, _tool_count, persisted, version_context, switch_ret,
                   live_edits>>
    /\ UNCHANGED <<execVars, voteVars, mergeVars, orchVars, ioVars>>

\* VersionManager.switch_to_version(id), called in the main thread
SwitchToVersion(id) ==
    /\ MainThread \notin BusyThreads
    /\ IF id \notin _versions
       THEN /\ switch_ret' = FALSE
            /\ UNCHANGED <<live, snapshot, _active_version_id>>
       ELSE /\ snapshot' = SaveToActive(snapshot, _versions, _active_version_id, live)
            /\ live' = snapshot'[id]
            /\ _active_version_id' = id
            /\ switch_ret' = TRUE
    /\ UNCHANGED <<_versions, status, rpc, affinity, calls, _tool_count,
                   persisted, version_context, live_edits>>
    /\ UNCHANGED <<execVars, voteVars, mergeVars, orchVars, ioVars>>

\* VersionManager.delete_version(id) of a version the manager holds
DeleteVersion(id) ==
    /\ MainThread \notin BusyThreads
    /\ id \in _versions
    /\ _versions' = _versions \ {id}
    /\ _active_version_id' = ActiveAfterDelete(_active_version_id, id)
    /\ UNCHANGED <<live, snapshot, status, rpc, affinity, calls, _tool_count,
                   persisted, version_context, switch_ret, live_edits>>
    /\ UNCHANGED <<execVars, voteVars, mergeVars, orchVars, ioVars>>

RECURSIVE ActiveAfterDeletes(_, _)
\* _active_version_id after delete_version of every id of ids
ActiveAfterDeletes(active, ids) ==
    IF ids = {} THEN active
    ELSE LET id == CHOOSE x \in ids : TRUE
         IN  ActiveAfterDeletes(ActiveAfterDelete(active, id), ids \ {id})

\* VersionManager.clear_all_versions()
ClearAllVersions ==
    /\ MainThread \notin BusyThreads
    /\ _versions # {}
    /\ _versions' = {}
    /\ _active_version_id' = ActiveAfterDeletes(_active_version_id, _versions)
    /\ UNCHANGED <<live, snapshot, status, rpc, affinity, calls, _tool_count,
                   persisted, version_context, switch_ret, live_edits>>
    /\ UNCHANGED <<execVars, voteVars, mergeVars, orchVars, ioVars>>

\* the main thread edits the live project outside any version
EditLive ==
    /\ MainThread \notin BusyThreads
    /\ live_edits < MaxLiveEdits
    /\ live_edits' = live_edits + 1
    /\ live' = live \cup {Mark(NoVersion, live_edits + 1)}
    /\ UNCHANGED <<_versions, snapshot, _active_version_id, status, rpc,
                   affinity, calls, _tool_count, persisted, version_context,
                   switch_ret>>
    /\ UNCHANGED <<execVars, voteVars, mergeVars, orchVars, ioVars>>

\* a VersionManager without versions and the live project without edits
VersionIdle ==
    /\ live = {}
    /\ _versions = {}
    /\ snapshot = EmptyDict
    /\ _active_version_id = NoVersion
    /\ status = EmptyDict
    /\ rpc = EmptyDict
    /\ affinity = EmptyDict
    /\ calls = EmptyDict
    /\ _tool_count = EmptyDict
    /\ persisted = EmptyDict
    /\ version_context = NoContext
    /\ switch_ret = FALSE
    /\ live_edits = 0

ExecIdle ==
    /\ steps = <<>>
    /\ pc = "build"
    /\ is_valid = FALSE
    /\ error = NoError
    /\ sorted_steps = <<>>
    /\ idx = 1
    /\ executed_steps = EmptyDict
    /\ successful_steps = 0
    /\ failed_steps = 0
    /\ dispatched = <<>>
    /\ result = NoResult

VoteIdle ==
    /\ voting_results = (VotedStep :> <<>>)
    /\ resolutions = NotResolved
    /\ vpc = "voting"

MergeIdle ==
    /\ modifications_list = <<>>
    /\ merged = None
    /\ mpc = "input"

\* ========================================================================
\* Properties of validate and execute_plan (specification Spec)
\* ========================================================================
Deps(st, id) == Range(FindStep(st, id).dependencies)

\* every dependency id of every step is the id of a step of the plan
AllDepsExist(st) == \A id \in StepIds(st) : Deps(st, id) \subseteq StepIds(st)

\* the steps reachable from the steps of S along at most k more dependencies
RECURSIVE DepClosure(_, _, _)
DepClosure(st, S, k) ==
    IF k = 0 THEN S
    ELSE DepClosure(st,
             S \cup UNION {Deps(st, id) \cap StepIds(st) : id \in S}, k - 1)

\* the direct and transitive dependencies of a step
TransDeps(st, id) == DepClosure(st, Deps(st, id) \cap StepIds(st), Len(st))

\* the dependency relation over the steps of the plan has a cycle
HasCycleRel(st) == \E id \in StepIds(st) : id \in TransDeps(st, id)

Ran(id) == id \in DOMAIN executed_steps

Failed(id) == Ran(id) /\ ~executed_steps[id].success

\* C1: a step is handed to a sub-agent only when every id in its
\* dependencies is already recorded in executed_steps with success = true;
\* so a step that depends on a failed step is never dispatched.
C1_DispatchOnlyAfterSuccess ==
    [][Len(dispatched') > Len(dispatched) =>
          \A d \in Deps(steps, dispatched'[Len(dispatched')]) :
              /\ d \in DOMAIN executed_steps
              /\ executed_steps[d].success]_vars

C1_Witness ==
    /\ pc = "done"
    /\ \E a, b \in StepIds(steps) :
          /\ a \in Deps(steps, b)
          /\ a \in Range(dispatched)
          /\ Failed(a)
          /\ b \notin Range(dispatched)

\* C2 (as claimed): when execute_plan returns for a validated plan, the
\* step results hold a record for every step id of the plan, and a step
\* skipped for a failed dependency is recorded with success = false.
C2_EveryStepRecorded ==
    (pc = "done" /\ is_valid) =>
        /\ DOMAIN result.step_results = StepIds(steps)
        /\ \A id \in StepIds(steps) :
              (\E d \in Deps(steps, id) : Failed(d)) =>
                  /\ id \in DOMAIN result.step_results
                  /\ ~result.step_results[id].success

\* the ids of seq[1..i-1]
Before(seq, i) == {seq[j] : j \in 1..(i - 1)}

\* C3: for a plan that passes validate, the steps are considered in an order
\* in which every step comes after all the steps it depends on, the steps
\* are dispatched in that order, and so no step is dispatched before a step
\* it depends on, whatever the order of plan.steps.
C3_TopologicalDispatchOrder ==
    (pc \in {"loop", "done"} /\ is_valid) =>
        /\ \A i \in DOMAIN sorted_steps :
              Deps(steps, sorted_steps[i]) \subseteq Before(sorted_steps, i)
        /\ \A i \in DOMAIN dispatched :
              /\ Deps(steps, dispatched[i]) \subseteq Before(dispatched, i)
              /\ \E k \in DOMAIN sorted_steps :
                    /\ sorted_steps[k] = dispatched[i]
                    /\ Before(dispatched, i) \subseteq Before(sorted_steps, k)

C3_Witness ==
    /\ pc = "done"
    /\ \E i, j \in DOMAIN dispatched :
          /\ i < j
          /\ dispatched[i] > dispatched[j]
          /\ dispatched[i] \in Deps(steps, dispatched[j])

\* C4 (as claimed): when execute_plan returns for a validated plan, every
\* step none of whose direct or transitive dependencies failed has been run,
\* and only steps that depend on a failed step have been skipped.
C4_OnlyDependentsSkipped ==
    (pc = "done" /\ is_valid) =>
        \A id \in StepIds(steps) :
            Ran(id) <=> (\A d \in TransDeps(steps, id) : ~Failed(d))

\* C5 (as claimed): validate returns false with the circular-dependency
\* reason for every plan whose dependency relation over its steps has a cycle.
C5_CycleAlwaysReported ==
    (pc = "done" /\ HasCycleRel(steps)) => (~is_valid /\ error = CircularError)

\* C5 (amended): for a plan whose dependencies all exist, validate returns
\* (False, circular dependency) when the dependency relation has a cycle,
\* a step depending on itself included, and (True, "") when it has none.
C5_ValidateDecidesAcyclicity ==
    (pc = "done" /\ AllDepsExist(steps)) =>
        IF HasCycleRel(steps)
        THEN ~is_valid /\ error = CircularError
        ELSE is_valid /\ error = NoError

C5_Witness ==
    /\ pc = "done"
    /\ AllDepsExist(steps)
    /\ \E a, b \in StepIds(steps) :
          /\ a # b
          /\ a \in TransDeps(steps, b)
          /\ b \in TransDeps(steps, a)
          /\ a \notin Deps(steps, a)
    /\ ~is_valid
    /\ error = CircularError

\* the first step of the plan, in plan order, that names a missing id
FirstOffender(st) ==
    CHOOSE i \in DOMAIN st :
        /\ ~(Range(st[i].dependencies) \subseteq StepIds(st))
        /\ \A k \in 1..(i - 1) : Range(st[k].dependencies) \subseteq StepIds(st)

\* the first missing id in the dependency list of step i
FirstMissing(st, i) ==
    LET deps == st[i].dependencies
    IN  deps[CHOOSE j \in DOMAIN deps :
                 /\ deps[j] \notin StepIds(st)
                 /\ \A k \in 1..(j - 1) : deps[k] \in StepIds(st)]

\* C6: validate rejects every plan in which a step names a dependency id
\* that no step of the plan carries; the error is that of the first such
\* step and its first missing id, and names both, also when the plan has a
\* cycle as well.
C6_DanglingDependencyRejected ==
    (pc = "done" /\ ~AllDepsExist(steps)) =>
        /\ ~is_valid
        /\ error = NonExistentError(steps[FirstOffender(steps)].step_id,
                                    FirstMissing(steps, FirstOffender(steps)))
        /\ error.step \in StepIds(steps)
        /\ error.dep \notin StepIds(steps)

C6_Witness ==
    /\ pc = "done"
    /\ ~AllDepsExist(steps)
    /\ HasCycleRel(steps)
    /\ FirstOffender(steps) > 1
    /\ error = NonExistentError(steps[FirstOffender(steps)].step_id,
                                FirstMissing(steps, FirstOffender(steps)))

\* C7: when the plan has a dangling or cyclic dependency, execute_plan runs
\* and dispatches no step and returns success = false with the validation
\* error, steps_executed = 0 and steps_total = len(plan.steps).
C7_InvalidPlanNeverExecuted ==
    (~AllDepsExist(steps) \/ HasCycleRel(steps)) =>
        /\ dispatched = <<>>
        /\ executed_steps = EmptyDict
        /\ pc # "loop"
        /\ pc = "done" =>
              /\ error # NoError
              /\ result = [success |-> FALSE, error |-> error,
                           steps_executed |-> 0, steps_total |-> Len(steps)]

C7_Witness ==
    /\ pc = "done"
    /\ HasCycleRel(steps)
    /\ \E id \in StepIds(steps) : Deps(steps, id) = {}
    /\ result.success = FALSE
    /\ result.steps_executed = 0
    /\ result.steps_total = Len(steps)

\* C28: for every plan that passes validate, a dependencies list that names
\* a step id twice included, execute_plan accounts for every step: each step
\* is dispatched or counted as failed, steps_executed + steps_failed equals
\* steps_total, and success is true only if every step was dispatched and
\* succeeded.
C28_EveryStepAccountedFor ==
    (pc = "done" /\ is_valid) =>
        /\ result.steps_executed + result.steps_failed = result.steps_total
        /\ result.steps_total = Len(steps)
        /\ result.success =>
              \A id \in StepIds(steps) :
                  /\ id \in Range(dispatched)
                  /\ Ran(id)
                  /\ executed_steps[id].success

\* ========================================================================
\* Properties of resolve_votes (specification SpecVote)
\* ========================================================================
NumVotes(t) ==
    Cardinality({i \in DOMAIN voting_results[VotedStep] :
                    voting_results[VotedStep][i].vote = t})

\* C8: with n >= 1 votes, a approve, c conditional, r reject: approved,
\* "Strong approval" and no modifications when a/n >= 0.7; otherwise
\* approved, "Conditional approval" when (a+c)/n >= 0.7; otherwise not
\* approved, "Insufficient consensus" and no modifications; the tally
\* reported is (a, c, r).
C8_ThresholdRule ==
    (vpc = "resolved" /\ Len(voting_results[VotedStep]) >= 1) =>
        LET n == Len(voting_results[VotedStep])
            a == NumVotes("approve")
            c == NumVotes("conditional")
            r == NumVotes("reject")
        IN  /\ resolutions.raised = None
            /\ DOMAIN resolutions.value = {VotedStep}
            /\ LET res == resolutions.value[VotedStep]
               IN  /\ res.votes = [approve |-> a, conditional |-> c, reject |-> r]
                   /\ (10 * a >= 7 * n) =>
                          /\ res.approved
                          /\ res.consensus = "Strong approval"
                          /\ res.modifications = EmptyMods
                   /\ (10 * a < 7 * n /\ 10 * (a + c) >= 7 * n) =>
                          /\ res.approved
                          /\ res.consensus = "Conditional approval"
                   /\ (10 * (a + c) < 7 * n) =>
                          /\ ~res.approved
                          /\ res.consensus = "Insufficient consensus"
                          /\ res.modifications = EmptyMods

C8_Witness ==
    /\ vpc = "resolved"
    /\ Len(voting_results[VotedStep]) = 10
    /\ NumVotes("approve") = 7
    /\ NumVotes("reject") >= 1
    /\ NumVotes("conditional") >= 1
    /\ resolutions.raised = None
    /\ resolutions.value[VotedStep].consensus = "Strong approval"

\* C9 (as claimed): a step with zero votes resolves to not approved with
\* the label "Insufficient consensus", and resolve_votes raises no division
\* error.
C9_NoVotesNotApproved ==
    (vpc = "resolved" /\ Len(voting_results[VotedStep]) = 0) =>
        /\ resolutions.raised = None
        /\ VotedStep \in DOMAIN resolutions.value
        /\ ~resolutions.value[VotedStep].approved
        /\ resolutions.value[VotedStep].consensus = "Insufficient consensus"

\* ========================================================================
\* Properties of _merge_modifications (specification SpecMerge)
\* ========================================================================

\* the positions of modifications_list that propose a value for key
Proposers(key) ==
    {i \in DOMAIN modifications_list :
        /\ HasToolArgs(modifications_list[i])
        /\ key \in DOMAIN modifications_list[i].tool_args}

Proposed(i, key) == modifications_list[i].tool_args[key]

\* exactly two votes propose a value for key, and both values are numbers
TwoNumericProposals(key) ==
    /\ Cardinality(Proposers(key)) = 2
    /\ \A i \in Proposers(key) : IsNumeric(Proposed(i, key))

\* C10 (as claimed): when exactly two conditional votes propose numeric
\* values for the same key, the merged value is the lower of the two.
C10_TwoValuesMergeToLower ==
    mpc = "merged" =>
        \A key \in ModKeys :
            TwoNumericProposals(key) =>
                /\ HasToolArgs(merged)
                /\ key \in DOMAIN merged.tool_args
                /\ \A i \in Proposers(key) :
                      merged.tool_args[key].num <= Proposed(i, key).num

\* C10 (amended): when exactly two conditional votes propose numeric values
\* for the same key, the merged value is the higher of the two (1.3 for 1.1
\* and 1.3).
C10_TwoValuesMergeToHigher ==
    mpc = "merged" =>
        \A key \in ModKeys :
            TwoNumericProposals(key) =>
                /\ HasToolArgs(merged)
                /\ key \in DOMAIN merged.tool_args
                /\ IsNumeric(merged.tool_args[key])
                /\ \E i \in Proposers(key) : merged.tool_args[key] = Proposed(i, key)
                /\ \A i \in Proposers(key) :
                      merged.tool_args[key].num >= Proposed(i, key).num

C10_Witness ==
    /\ mpc = "merged"
    /\ Len(modifications_list) = 2
    /\ TwoNumericProposals("brightness")
    /\ \E i, j \in Proposers("brightness") :
          /\ Proposed(i, "brightness").num < Proposed(j, "brightness").num
          /\ merged = ToolArgs("brightness" :> Proposed(j, "brightness"))

\* how many proposals for key are below / not above the number x
ProposalsBelow(key, x) ==
    Cardinality({i \in Proposers(key) : Proposed(i, key).num < x})

ProposalsAtMost(key, x) ==
    Cardinality({i \in Proposers(key) : Proposed(i, key).num <= x})

AllNumericProposals(key) ==
    /\ Proposers(key) # {}
    /\ \A i \in Proposers(key) : IsNumeric(Proposed(i, key))

\* C11: for a key whose proposed values are all numeric, the merged value is
\* the element at index len // 2 (0-based) of the ascending-sorted proposals:
\* a proposed value with at most len // 2 proposals below it and more than
\* len // 2 proposals not above it.
C11_MergedIsSortedIndexElement ==
    mpc = "merged" =>
        \A key \in ModKeys :
            AllNumericProposals(key) =>
                /\ HasToolArgs(merged)
                /\ key \in DOMAIN merged.tool_args
                /\ IsNumeric(merged.tool_args[key])
                /\ \E i \in Proposers(key) : merged.tool_args[key] = Proposed(i, key)
                /\ LET half == Cardinality(Proposers(key)) \div 2
                       x == merged.tool_args[key].num
                   IN  /\ ProposalsBelow(key, x) <= half
                       /\ ProposalsAtMost(key, x) > half

\* three numeric proposals arrive out of order and the middle one is merged
C11_Witness ==
    /\ mpc = "merged"
    /\ Len(modifications_list) = 3
    /\ Proposers("brightness") = {1, 2, 3}
    /\ AllNumericProposals("brightness")
    /\ Proposed(1, "brightness").num > Proposed(3, "brightness").num
    /\ Proposed(3, "brightness").num > Proposed(2, "brightness").num
    /\ merged.tool_args["brightness"] = Proposed(3, "brightness")

SomeNonNumericProposal(key) ==
    \E i \in Proposers(key) : ~IsNumeric(Proposed(i, key))

\* how often the value v is proposed for key, and where it is proposed first
ProposalCount(key, v) ==
    Cardinality({i \in Proposers(key) : Proposed(i, key) = v})

FirstProposal(key, v) ==
    CHOOSE i \in Proposers(key) :
        /\ Proposed(i, key) = v
        /\ \A j \in Proposers(key) : Proposed(j, key) = v => i <= j

C14_PhasesInStrictOrder ==
    [][phase' # phase => PhaseIndex(phase') = PhaseIndex(phase) + 1]_vars

\* a run with a failed analysis and a critique that raised has reached Done
C14_Witness ==
    /\ phase = "Done"
    /\ Len(directors) = 2
    /\ AnalysisDeviations = 1
    /\ DebateDeviations = 1

\* the positions of analyses that hold the analysis of director d
AnalysesOf(d) == {i \in DOMAIN analyses : analyses[i].director_id = d}

\* C15: the Analysis phase is a full fan-in barrier: once the run has left
\* Analysis every director's analyze_project call has ended, and analyses
\* holds exactly one Analysis per director of the roster (a failed call
\* being represented by a degraded Analysis, never by a missing one).
C15_BarrierWithOneAnalysisPerDirector ==
    phase # "Analysis" =>
        /\ AllCompleted(futures)
        /\ Len(analyses) = Len(directors)
        /\ \A d \in Range(directors) : Cardinality(AnalysesOf(d)) = 1

\* ========================================================================
\* Properties of voting and resolution (specification SpecVoting)
\* ========================================================================
PlanStepIds == {plan.steps[i].step_id : i \in DOMAIN plan.steps}

\* every vote run_voting has collected so far
AllVotes ==
    Range(step_votes)
    \cup UNION {Range(voting_results[s]) : s \in DOMAIN voting_results}

\* C16: after run_voting every step of the plan has exactly one vote per
\* director, in roster order, whatever the single vote calls did, and each
\* vote carries the id of the director and of the step it was requested for.
C16_OneVotePerDirectorPerStep ==
    phase \in {"Resolution", "Done"} =>
        /\ DOMAIN voting_results = PlanStepIds
        /\ \A s \in DOMAIN voting_results :
              /\ Len(voting_results[s]) = Len(directors)
              /\ \A i \in DOMAIN voting_results[s] :
                    /\ voting_results[s][i].director_id = directors[i]
                    /\ voting_results[s][i].step_id = s

\* two directors, two steps: on the first step one call raised and one
\* answered without JSON, on the second both answered with a vote
C16_Witness ==
    /\ phase = "Resolution"
    /\ Len(directors) = 2
    /\ PlanStepIds = {1, 2}
    /\ voting_results[1] =
           <<DefaultVoteOnError(1, 1),
             DefaultVoteOnParseError(2, 1, ErrorText(NoJson))>>
    /\ \A i \in {1, 2} : voting_results[2][i].rationale = <<"given">>

\* C17 (as claimed): when a director's vote call fails -- the completion
\* call raises or does not answer usably -- the vote recorded for that
\* director and step is the default approve vote with confidence 0.5 and the
\* marker rationale, and voting goes on with the next director.
C17_FailedCallGivesErrorDefault ==
    [][\A r \in {InvokeRaises, NoJson, BadJson} :
          GetDirectorVote(r) =>
              /\ step_votes' =
                     Append(step_votes,
                            DefaultVoteOnError(directors[turn],
                                               plan.steps[vote_step].step_id))
              /\ turn' = turn + 1]_vars

\* C18: when the completion for a vote holds no well-formed JSON object,
\* the vote recorded is an approve vote with confidence 0.6, empty suggested
\* modifications and the parse-error rationale; it is returned by
\* _get_director_vote, not produced by an error handler of its caller.
C18_UnparseableGivesParseDefault ==
    [][\A r \in {NoJson, BadJson} :
          GetDirectorVote(r) =>
              /\ Len(step_votes') = Len(step_votes) + 1
              /\ LET v == step_votes'[Len(step_votes')]
                 IN  /\ v.vote = "approve"
                     /\ v.confidence = 6
                     /\ v.suggested_modifications.kind = "empty"
                     /\ v.rationale[1] = "Default approve (parsing error: "
                     /\ v.director_id = directors[turn]
              /\ run_result = NotReturned]_vars

\* a completion without JSON has been turned into the 0.6 approve vote
C18_Witness ==
    /\ phase = "Voting"
    /\ step_votes # <<>>
    /\ step_votes[Len(step_votes)] =
           DefaultVoteOnParseError(directors[Len(step_votes)],
                                   plan.steps[vote_step].step_id,
                                   "No JSON found in response")

\* C19: resolution never removes a step: _apply_voting_resolutions leaves
\* the step ids of the plan and their order as they were, and every step
\* resolved as not approved is still there, with confidence 0.3 and a
\* rejection note.
C19_ResolutionKeepsEveryStep ==
    [][(phase = "Resolution" /\ phase' = "Done" /\ resolutions'.raised = None) =>
          /\ Len(plan'.steps) = Len(plan.steps)
          /\ \A i \in DOMAIN plan.steps :
                /\ i \in DOMAIN plan'.steps
                /\ plan'.steps[i].step_id = plan.steps[i].step_id
                /\ ~resolutions'.value[plan.steps[i].step_id].approved =>
                      /\ plan'.steps[i].confidence = 3
                      /\ "voting" \in DOMAIN plan'.steps[i].director_notes
                      /\ plan'.steps[i].director_notes["voting"].prefix =
                             "Rejected by directors: "]_vars

\* of two steps the first was rejected and the second approved: both are
\* in the returned plan, the first with confidence 0.3
C19_Witness ==
    /\ phase = "Done"
    /\ resolutions.raised = None
    /\ Len(directors) = 2
    /\ Len(plan.steps) = 2
    /\ ~resolutions.value[1].approved
    /\ resolutions.value[2].approved
    /\ plan.steps[1].step_id = 1 /\ plan.steps[1].confidence = 3
    /\ plan.steps[2].step_id = 2 /\ plan.steps[2].confidence = 7
    /\ run_result = ReturnedPlan(plan)

\* the suggested_modifications of the conditional votes, in vote order
ConditionalMods(votes) ==
    LET cond == SelectSeq(votes, IsConditional)
    IN  [i \in DOMAIN cond |-> cond[i].suggested_modifications]

SameMods(a, b) ==
    /\ a.kind = b.kind
    /\ a.kind = "tool_args" => a.tool_args = b.tool_args

\* m is what the merge rule gives for the modifications in cond alone: the
\* keys are those of the dict-valued tool_args in cond, every value is one
\* that cond proposes for its key, and a value for all-numeric proposals has
\* the rank len // 2 among them
MergedFrom(cond, m) ==
    LET dicts == {i \in DOMAIN cond : HasToolArgs(cond[i])}
    IN  IF dicts = {} THEN m.kind = "empty"
        ELSE /\ m.kind = "tool_args"
             /\ DOMAIN m.tool_args = UNION {DOMAIN cond[i].tool_args : i \in dicts}
             /\ \A key \in DOMAIN m.tool_args :
                   LET P == {i \in dicts : key \in DOMAIN cond[i].tool_args}
                       x == m.tool_args[key]
                       half == Cardinality(P) \div 2
                   IN  /\ \E i \in P : cond[i].tool_args[key] = x
                       /\ (\A i \in P : IsNumeric(cond[i].tool_args[key])) =>
                             /\ Cardinality({i \in P : cond[i].tool_args[key].num < x.num}) <= half
                             /\ Cardinality({i \in P : cond[i].tool_args[key].num <= x.num}) > half

ConditionallyApproved(s) ==
    /\ phase = "Done"
    /\ resolutions.raised = None
    /\ s \in DOMAIN resolutions.value
    /\ resolutions.value[s].consensus = "Conditional approval"

C20_RunEndsWithPlan ==
    <>[](phase = "Done" /\ run_result = ReturnedPlan(plan))

\* the synthesis failed and, with an empty roster, resolve_votes raised:
\* the run has still returned the fallback plan
C20_Witness ==
    /\ phase = "Done"
    /\ directors = <<>>
    /\ plan.steps = <<FallbackStep>>
    /\ resolutions.raised = "ZeroDivisionError"
    /\ run_result = ReturnedPlan(plan)

\* ========================================================================
\* Properties of the Debate and Synthesis phases (specification SpecRun)
\* ========================================================================
\* the critiques of a debate in which every director answers in every round
DebateRounds(ds) ==
    [i \in 1..(max_debate_rounds * Len(ds)) |->
        DebateMessage(ds[((i - 1) % Len(ds)) + 1], ((i - 1) \div Len(ds)) + 1,
                      "critique")]

\* C24: once the Debate phase is over, the transcript is one round 0 message
\* per analysis followed, round by round from 1 to max_debate_rounds, by
\* exactly one message of every director of the roster.
C24_TranscriptHasEveryRound ==
    PhaseIndex(phase) > PhaseIndex("Debate") =>
        debate_messages = InitialMessages(analyses) \o DebateRounds(directors)

\* C25: when the synthesis fails, the plan _synthesize_consensus returns
\* holds exactly one step, the manual review step, which depends on no
\* step, and run_directors goes on to the Voting phase with that plan.
C25_FailedSynthesisGivesOneManualStep ==
    [][Synthesize(SynthFails) =>
          /\ Len(plan'.steps) = 1
          /\ plan'.steps[1].tool_name = "manual_review"
          /\ plan'.steps[1].dependencies = <<>>
          /\ phase' = "Voting"]_vars

\* the votes on the manual review step of a failed synthesis are stored
C25_Witness ==
    /\ phase = "Resolution"
    /\ directors # <<>>
    /\ Len(plan.steps) = 1
    /\ plan.steps[1].tool_name = "manual_review"
    /\ DOMAIN voting_results = {plan.steps[1].step_id}

\* the merged tool_args of a resolution, {} when it holds no modifications
MergedToolArgs(r) ==
    IF r.modifications.kind = "tool_args" THEN r.modifications.tool_args
    ELSE EmptyDict

\* C26: _apply_voting_resolutions sets, for a step resolved as Conditional
\* approval with non-empty merged tool_args, every merged key of
\* step.tool_args to the merged value and leaves every other key of
\* tool_args, the confidence and the dependencies as they were; a step
\* resolved as Strong approval keeps tool_args, confidence and dependencies.
C26_ApprovedStepsChangeOnlyMergedArgs ==
    [][(phase = "Resolution" /\ phase' = "Done" /\ resolutions'.raised = None) =>
          \A i \in DOMAIN plan.steps :
              LET old == plan.steps[i]
                  new == plan'.steps[i]
                  r == resolutions'.value[old.step_id]
                  m == MergedToolArgs(r)
              IN  /\ (r.consensus = "Conditional approval" /\ DOMAIN m # {}) =>
                        /\ DOMAIN new.tool_args = DOMAIN old.tool_args \cup DOMAIN m
                        /\ \A key \in DOMAIN m : new.tool_args[key] = m[key]
                        /\ \A key \in DOMAIN old.tool_args \ DOMAIN m :
                              new.tool_args[key] = old.tool_args[key]
                        /\ new.confidence = old.confidence
                        /\ new.dependencies = old.dependencies
                  /\ r.consensus = "Strong approval" =>
                        /\ new.tool_args = old.tool_args
                        /\ new.confidence = old.confidence
                        /\ new.dependencies = old.dependencies]_vars

\* of two steps the first was approved strongly and the second
\* conditionally with brightness 3 merged into its tool_args
C26_Witness ==
    /\ phase = "Done"
    /\ resolutions.raised = None
    /\ Len(plan.steps) = 2
    /\ resolutions.value[1].consensus = "Strong approval"
    /\ resolutions.value[2].consensus = "Conditional approval"
    /\ resolutions.value[2].modifications = ToolArgs("brightness" :> Num(3))
    /\ plan.steps[1].tool_args =
           ("clip_id" :> Text("clip_002")) @@ ("brightness" :> Num(2))
    /\ plan.steps[2].tool_args =
           ("clip_id" :> Text("clip_002")) @@ ("brightness" :> Num(3))
    /\ plan.steps[2].confidence = 7

\* ========================================================================
\* Properties of the parallel versions (specification SpecVersions)
\* ========================================================================
\* C21: at any instant at most one thread is executing a tool call of the
\* background runs, and it is the main thread: the calls of concurrent runs
\* are executed one at a time, each run waiting until its own call has
\* returned before it goes on.
C21_OneToolCallAtATimeInMainThread ==
    /\ Cardinality(Executing) <= 1
    /\ \A v \in Executing : affinity[v] = MainThread

\* the run of version 2 waits for its tool call while the main thread
\* executes the tool call of version 1
C21_Witness ==
    /\ DOMAIN rpc = {1, 2}
    /\ rpc[1] = "tool_ok"
    /\ rpc[2] = "requested"
    /\ affinity[1] = MainThread
    /\ affinity[2] = MainThread

\* a step of the run_tool call of version v
ToolStepOf(v) ==
    /\ rpc[v] \in {"requested", "in_tool", "tool_ok", "tool_raised"}
    /\ rpc'[v] # rpc[v]

\* C22: a tool call of version V's run changes V's snapshot only, and only
\* by its own edit: it changes neither the live project state nor the
\* snapshot of another version; the live state becomes a version's snapshot
\* only in switch_to_version (apart from that only edits outside any version
\* change it).
C22_ToolCallsChangeOwnSnapshotOnly ==
    [][/\ \A v \in DOMAIN rpc :
             ToolStepOf(v) =>
                 /\ live' = live
                 /\ \A w \in DOMAIN snapshot \ {v} : snapshot'[w] = snapshot[w]
                 /\ snapshot'[v] \subseteq snapshot[v] \cup {Mark(v, calls[v])}
                 /\ snapshot[v] \subseteq snapshot'[v]
       /\ live' # live =>
             \/ live_edits' = live_edits + 1 /\ live' = live \cup {Mark(NoVersion, live_edits')}
             \/ \E id \in _versions :
                   /\ SwitchToVersion(id)
                   /\ live' = snapshot'[id]]_vars

\* version 1 is active and has made an edit, version 2 has made an edit of
\* its own: the live state and the two snapshots are three different states
C22_Witness ==
    /\ DOMAIN snapshot = {1, 2}
    /\ _active_version_id = 1
    /\ Mark(1, 1) \in snapshot[1]
    /\ Mark(2, 1) \in snapshot[2]
    /\ Mark(2, 1) \notin snapshot[1]
    /\ Mark(1, 1) \notin snapshot[2]
    /\ Mark(1, 1) \notin live
    /\ Mark(2, 1) \notin live

\* C27: the version context of the base runner is set only while a run_tool
\* call is being executed, and then it is the context of the version whose
\* call it is: whenever run_tool has returned, whether the tool returned or
\* raised, the context is cleared.
C27_ContextOnlyDuringCall ==
    /\ Executing = {} => version_context = NoContext
    /\ \A v \in Executing : version_context.id = v

\* the first tool call of version 1 raised and has returned; the tool call
\* of version 2 runs under the context of version 2
C27_Witness ==
    /\ DOMAIN rpc = {1, 2}
    /\ rpc[1] = "running"
    /\ calls[1] = 1
    /\ _tool_count[1] = 0
    /\ rpc[2] = "in_tool"
    /\ version_context = set_version_context(2, snapshot[2])

\* C29: when the manager switches away from the active version V, every
\* result of a tool call that V's run has completed is still in V's
\* snapshot after the switch.
C29_SwitchKeepsCompletedToolResults ==
    [][\A id \in _versions :
          (SwitchToVersion(id) /\ _active_version_id \in DOMAIN snapshot
               /\ id # _active_version_id) =>
              persisted[_active_version_id] \subseteq snapshot'[_active_version_id]]_vars

\* the active version id is None or the id of a version the manager holds
ActiveVersionExists ==
    _active_version_id = NoVersion \/ _active_version_id \in _versions

\* C30: after any sequence of create_version, switch_to_version,
\* delete_version and clear_all_versions the active version id is None or
\* the id of a version the manager holds, and switch_to_version with an
\* unknown id returns False and changes neither the active id nor the live
\* state nor any snapshot.
C30_ActiveExistsAndUnknownSwitchIsRefused ==
    /\ []ActiveVersionExists
    /\ [][\A id \in VersionIds \ _versions :
            SwitchToVersion(id) =>
                /\ ~switch_ret'
                /\ _active_version_id' = _active_version_id
                /\ live' = live
                /\ snapshot' = snapshot]_vars

\* version 1 was active when the live state was edited and saved to it;
\* it was then deleted and the switch to its id was refused
C30_Witness ==
    /\ _active_version_id = NoVersion
    /\ ~switch_ret
    /\ DOMAIN snapshot = {1, 2}
    /\ _versions = {2}
    /\ Mark(NoVersion, 1) \in snapshot[1]
    /\ Mark(NoVersion, 1) \notin snapshot[2]

\* ========================================================================
\* Properties of to_dict and from_dict (specification SpecIo)
\* ========================================================================
\* C23: the plan from_dict builds from the dict to_dict returned has the
\* plan_id of the serialized plan, as many steps and, step by step, the
\* same step id, the same dependencies list and the same confidence.
C23_RoundTripKeepsIdsDepsConfidence ==
    loaded # Absent =>
        /\ loaded.value.plan_id = source_plan.plan_id
        /\ Len(loaded.value.steps) = Len(source_plan.steps)
        /\ \A i \in DOMAIN source_plan.steps :
              /\ loaded.value.steps[i].step_id = source_plan.steps[i].step_id
              /\ loaded.value.steps[i].dependencies = source_plan.steps[i].dependencies
              /\ loaded.value.steps[i].confidence = source_plan.steps[i].confidence

\* a plan of two steps, the second naming the first twice in its
\* dependencies and carrying the confidence of a rejected step, has been
\* reloaded; the reloaded plan is not the serialized plan (its alternatives
\* and its creation time are not read back)
C23_Witness ==
    /\ loaded # Absent
    /\ source_plan.plan_id = 2
    /\ Len(source_plan.steps) = 2
    /\ source_plan.steps[2].dependencies = <<1, 1>>
    /\ source_plan.steps[2].confidence = 3
    /\ loaded.value.steps[2].type = PlanStepType("ADD_EFFECT")
    /\ data.value.steps[2].type = "add_effect"
    /\ loaded.value # source_plan

Init == ExecIdle /\ VoteIdle /\ MergeIdle /\ OrchIdle /\ IoIdle /\ VersionIdle

Next ==
    \/ \E deps \in SeqsUpTo(DepIds, MaxDepEntries - TotalDeps(steps)) : AddStep(deps)
    \/ ExecutePlan
    \/ SkipStep
    \/ \E outcome \in Outcomes : RunStep(outcome)

Spec == Init /\ [][Next]_vars

NextVote ==
    \/ \E vote \in VoteTypes, mods \in VoteMods : CastVote(vote, mods)
    \/ ResolveVotes

SpecVote == Init /\ [][NextVote]_vars

InitMerge ==
    /\ ExecIdle
    /\ VoteIdle
    /\ modifications_list \in SeqsUpTo(ModsDomain, MaxMods)
    /\ merged = None
    /\ mpc = "input"
    /\ OrchIdle
    /\ IoIdle
    /\ VersionIdle

NextMerge == MergeModifications

SpecMerge == InitMerge /\ [][NextMerge]_vars

\* the ways a vote call ends in a whole run
RunResponses ==
    {VoteObject("approve", EmptyMods), VoteObject("reject", EmptyMods),
     PromptRaises, InvokeRaises}

SynthOutcomes == {SynthFails} \cup {SynthSteps(n) : n \in 1..MaxSynthSteps}

InitRun ==
    /\ ExecIdle
    /\ MergeIdle
    /\ IoIdle
    /\ VersionIdle
    /\ \E n \in 0..MaxDirectors : OrchStart(n)
    /\ voting_results = EmptyDict
    /\ resolutions = NotResolved
    /\ vpc = "voting"

NextRun ==
    \/ \E d \in DOMAIN futures : StartAnalysis(d)
    \/ \E d \in DOMAIN futures, outcome \in AnalysisOutcomes : CompleteAnalysis(d, outcome)
    \/ ReturnAnalyses
    \/ \E outcome \in CritiqueOutcomes : Critique(outcome)
    \/ ReturnDebate
    \/ \E outcome \in SynthOutcomes : Synthesize(outcome)
    \/ \E response \in RunResponses : GetDirectorVote(response)
    \/ StoreStepVotes
    \/ ResolveAndApply

SpecRun == InitRun /\ [][NextRun]_vars

\* every call returns or raises, so a run that can take a step takes one
SpecRunFair == InitRun /\ [][NextRun]_vars /\ WF_vars(NextRun)


\* -------------------------------------- voting and resolution in detail
\* the suggested_modifications a conditional vote holds
ResponseMods ==
    {EmptyMods, NotDictToolArgs,
     ToolArgs("brightness" :> Num(1)), ToolArgs("brightness" :> Num(3))}

\* the ways a vote call ends
VoteResponses ==
    {PromptRaises, InvokeRaises, NoJson, BadJson, BareObject}
    \cup {VoteObject("conditional", m) : m \in ResponseMods}
    \cup {VoteObject("approve", m) : m \in {EmptyMods, ToolArgs("brightness" :> Num(3))}}
    \cup {VoteObject("reject", m) : m \in {EmptyMods, ToolArgs("brightness" :> Num(3))}}
    \cup {VoteObject(v, EmptyMods) : v \in {"REJECT", "maybe"}}

\* the transcript of a debate in which every critique returned
FullTranscript(list) ==
    InitialMessages(list)
    \o [i \in 1..(max_debate_rounds * Len(list)) |->
           DebateMessage(((i - 1) % Len(list)) + 1, ((i - 1) \div Len(list)) + 1,
                         "critique")]

\* run_voting starts: n directors whose analyses and critiques all returned,
\* in roster order, and a synthesized plan of k steps
VotingStart(n, k) ==
    /\ directors = Roster(n)
    /\ phase = "Voting"
    /\ futures = [d \in 1..n |-> "done"]
    /\ analyses = [d \in 1..n |-> DirectorAnalysis(d, 8)]
    /\ debate_messages = FullTranscript(analyses)
    /\ round_num = IF n = 0 THEN 1 ELSE max_debate_rounds + 1
    /\ turn = 1
    /\ plan = _synthesize_consensus(analyses, debate_messages, SynthSteps(k))
    /\ vote_step = 1
    /\ step_votes = <<>>
    /\ run_result = NotReturned

InitVoting ==
    /\ ExecIdle
    /\ MergeIdle
    /\ IoIdle
    /\ VersionIdle
    /\ \E n \in 0..MaxVoteCalls, k \in 1..MaxVoteCalls :
          n * k <= MaxVoteCalls /\ VotingStart(n, k)
    /\ voting_results = EmptyDict
    /\ resolutions = NotResolved
    /\ vpc = "voting"

NextVoting ==
    \/ \E response \in VoteResponses : GetDirectorVote(response)
    \/ StoreStepVotes
    \/ ResolveAndApply

SpecVoting == InitVoting /\ [][NextVoting]_vars

\* ------------------------------------ serializing and reloading a plan
InitIo ==
    /\ ExecIdle
    /\ VoteIdle
    /\ MergeIdle
    /\ OrchIdle
    /\ VersionIdle
    /\ source_plan \in UNION {PlansOf(n) : n \in 0..MaxIoSteps}
    /\ data = Absent
    /\ loaded = Absent

NextIo == ToDict \/ FromDict

SpecIo == InitIo /\ [][NextIo]_vars

\* ---------------------------------------------------- parallel versions
NextVersions ==
    \/ \E submit \in BOOLEAN : CreateVersion(submit)
    \/ \E v \in VersionIds, moved \in BOOLEAN : StartRun(v, moved)
    \/ \E v \in VersionIds : RequestTool(v)
    \/ \E v \in VersionIds : BeginTool(v)
    \/ \E v \in VersionIds, raised \in BOOLEAN : ToolBody(v, raised)
    \/ \E v \in VersionIds : EndTool(v)
    \/ \E v \in VersionIds, ok \in BOOLEAN : FinishRun(v, ok)
    \/ \E id \in VersionIds : SwitchToVersion(id)
    \/ \E id \in VersionIds : DeleteVersion(id)
    \/ ClearAllVersions
    \/ EditLive

SpecVersions == Init /\ [][NextVersions]_vars


=============================================================================
